---- MODULE Spec2Model ----
(***************************************************************************)
(* A model of the cryptocypher ledger node: the block/chain model and its  *)
(* hashing (pkg/blockchain/blockchain.go, held in sharding.go), the        *)
(* proof-of-work miner, chain validation and fork choice, pruning and      *)
(* archival, and the hybrid consensus manager.                             *)
(*                                                                         *)
(* Go strings are sequences of one-character strings, so that Sprintf's    *)
(* concatenation and the formatting of integers and slices are computed    *)
(* and not assumed.  sha256 + hex is a deterministic digest of HashLen hex *)
(* characters over the same record string.                                 *)
(***************************************************************************)
EXTENDS Integers, Sequences, FiniteSets, TLC

VARIABLES
    Blocks,           \* Blockchain.Blocks of the node's chain
    files,            \* archive files on disk: file name -> blocks written
    txPool,           \* TransactionPool.Transactions
    last,             \* the last operation: its arguments, result and pre-state
    hist,             \* history: what the callers and the disk have done so far
    CandidateBlocks,  \* HybridConsensusManager.CandidateBlocks
    hcmLast,          \* the last consensus operation and its result
    fnIn,             \* the arguments a function is applied to
    fnOut,            \* its result
    Peers,            \* Node.Peers
    sent,             \* the messages the last handler dispatched to peers
    conns,            \* the connection handlers in flight: where each one is
    mu,               \* HybridConsensusManager.mu: the call holding it, or 0
    calls,            \* the consensus calls in flight: where each one is
    ledger,           \* the Ledger: account -> balance, a float of coins
    Shards            \* BeaconChain.Shards

vars == <<Blocks, files, txPool, last, hist, CandidateBlocks, hcmLast, fnIn, fnOut,
          Peers, sent, conns, mu, calls, ledger, Shards>>

chainVars == <<Blocks, files, txPool, last, hist>>
hcmVars == <<CandidateBlocks, hcmLast>>
fnVars == <<fnIn, fnOut>>
netVars == <<Peers, sent, conns>>
lockVars == <<mu, calls>>
restVars == <<netVars, lockVars, ledger, Shards>>

----------------------------------------------------------------------------
(* Bounds of the model *)

\* hex characters of a digest (sha256 has 64)
HashLen == 3
\* nonces a mining run may try before the model gives it up as not returning
MaxNonce == 400
\* blocks of the long chain a run may start from
PrefixLen == 99
\* AddBlock calls of one run
MaxAdds == 3
\* the clock: time.Now().Unix() is one of 1..MaxTime
MaxTime == 2
\* candidate blocks the consensus manager holds
MaxCand == 2
\* consensus operations of one run
MaxHcmOps == 5
\* blocks of a chain received from outside
MaxChainLen == 2
\* the difficulties MineBlock is called with are 0..MaxDifficulty
MaxDifficulty == 2
\* PruneAndArchive calls of one run
MaxPrunes == 1
\* inbound connections handled at once
MaxConns == 2
\* consensus calls the connection handlers make in one run
MaxCalls == 3
\* bits of a float's significand (float64 has 53)
MantBits == 5
\* ledger operations in one run
MaxLedgerOps == 2
\* sub-block updates in one run
MaxSubs == 2
\* the longest chain and the widest window AdjustDifficulty is given
MaxWindow == 3
\* transactions waiting in the pool
MaxPool == 1
\* lines the inbound connections deliver in one run
MaxLines == 2

----------------------------------------------------------------------------
(* Strings *)

HexDigits == <<"0", "1", "2", "3", "4", "5", "6", "7", "8", "9",
               "a", "b", "c", "d", "e", "f">>

\* the characters the model's strings are made of, in byte order of use
Alphabet == HexDigits \o
    <<"g", "i", "m", "n", "o", "r", "s", "t", "v", "x", "A", "E", "R", "T", "X",
      " ", "-", "[", "]", "%", "!", "(", ")", "=">>

CharCode == [c \in {Alphabet[i] : i \in DOMAIN Alphabet} |->
                CHOOSE i \in DOMAIN Alphabet : Alphabet[i] = c]

RECURSIVE Pow(_, _)
Pow(b, n) == IF n = 0 THEN 1 ELSE b * Pow(b, n - 1)

RECURSIVE FormatNat(_)
FormatNat(n) ==
    IF n < 10 THEN <<HexDigits[n + 1]>>
    ELSE FormatNat(n \div 10) \o <<HexDigits[(n % 10) + 1]>>

\* fmt's %d of an int
FormatInt(n) == IF n < 0 THEN <<"-">> \o FormatNat(-n) ELSE FormatNat(n)

RECURSIVE JoinSpace(_)
JoinSpace(ss) ==
    IF ss = <<>> THEN <<>>
    ELSE IF Len(ss) = 1 THEN ss[1]
    ELSE ss[1] \o <<" ">> \o JoinSpace(Tail(ss))

\* fmt.Sprintf("%v", receivers) of a []string: [a b c]
serializeReceivers(receivers) == <<"[">> \o JoinSpace(receivers) \o <<"]">>

\* fmt's report of an argument no verb consumes: %!(EXTRA string=...)
ExtraString(s) ==
    <<"%", "!", "(", "E", "X", "T", "R", "A", " ",
      "s", "t", "r", "i", "n", "g", "=">> \o s \o <<")">>

\* the number of digests
Modulus == Pow(16, HashLen)

\* a * b modulo Modulus, within 32-bit integers
MulMod(a, b) == (((a * (b \div 256)) % Modulus) * 256 + a * (b % 256)) % Modulus

\* b^e modulo Modulus
RECURSIVE PowMod(_, _)
PowMod(b, e) ==
    IF e = 0 THEN 1
    ELSE IF e % 2 = 1 THEN MulMod(b, PowMod(b, e - 1))
    ELSE MulMod(PowMod(b, e \div 2), PowMod(b, e \div 2))

\* 31^k modulo Modulus, for the lengths of the model's strings
MaxRecordLen == 80
Pow31 == [k \in 0..MaxRecordLen |-> PowMod(31, k)]

\* the digest's state after the characters s[lo..hi], starting from 0: each
\* character takes h to h * 31 + code, computed by halves
RECURSIVE Mix(_, _, _)
Mix(s, lo, hi) ==
    IF lo > hi THEN 0
    ELSE IF lo = hi THEN CharCode[s[lo]]
    ELSE LET mid == (lo + hi) \div 2
         IN (MulMod(Mix(s, lo, mid), Pow31[hi - mid]) + Mix(s, mid + 1, hi)) % Modulus

\* the digest of s from the initial state 7
Fold(s) == (MulMod(7, Pow31[Len(s)]) + Mix(s, 1, Len(s))) % Modulus

RECURSIVE ToHex(_, _)
ToHex(n, w) ==
    IF w = 0 THEN <<>> ELSE ToHex(n \div 16, w - 1) \o <<HexDigits[(n % 16) + 1]>>

\* hex.EncodeToString(sha256.Sum256(record)): a digest of HashLen hex characters
Sha256Hex(record) == ToHex(Fold(record), HashLen)

HasPrefix(s, p) == Len(p) <= Len(s) /\ SubSeq(s, 1, Len(p)) = p

RECURSIVE Repeat(_, _)
Repeat(c, n) == IF n = 0 THEN <<>> ELSE <<c>> \o Repeat(c, n - 1)

RECURSIVE LeadingZeros(_)
LeadingZeros(s) ==
    IF s = <<>> \/ Head(s) # "0" THEN 0 ELSE 1 + LeadingZeros(Tail(s))

----------------------------------------------------------------------------
(* Blocks *)

\* the record CalculateHash digests: ten verbs for eleven arguments, so the
\* category comes out as fmt's EXTRA report
HashRecord(b) ==
    FormatInt(b.Index) \o FormatInt(b.Timestamp) \o b.PrevHash
        \o b.RelationshipType \o b.TextData \o b.AudioData \o b.VideoData
        \o serializeReceivers(b.Receivers)
        \o FormatInt(b.Difficulty) \o FormatInt(b.Nonce)
        \o ExtraString(b.Category)

CalculateHash(b) == Sha256Hex(HashRecord(b))

\* the block as nonce n leaves it: Nonce = n and Hash its digest
Attempt(b, n) ==
    LET c == [b EXCEPT !.Nonce = n] IN [c EXCEPT !.Hash = CalculateHash(c)]

\* MineBlock's loop from nonce lo: the first nonce from lo whose hash has the
\* target prefix, searched in windows of width, 2 * width, ...; hit is the
\* nonces of this window that meet the target.  returns is FALSE when no nonce
\* up to MaxNonce meets it: the call has not returned
RECURSIVE MineLoop(_, _, _, _, _)
MineLoop(b, target, lo, width, hit) ==
    IF hit # {} THEN
        [returns |-> TRUE,
         block |-> Attempt(b, CHOOSE n \in hit : \A m \in hit : n <= m)]
    ELSE IF lo + width > MaxNonce THEN
        [returns |-> FALSE, block |-> Attempt(b, lo + width)]
    ELSE MineLoop(b, target, lo + width, 2 * width,
                  {n \in (lo + width)..(lo + 3 * width - 1) :
                        HasPrefix(Attempt(b, n).Hash, target)})

\* MineBlock hashing once and returning, whatever the hash
MineBlock_NoSearch(b, difficulty) == [returns |-> TRUE, block |-> Attempt(b, b.Nonce)]

MineBlock(b, difficulty) ==
    MineLoop(b, Repeat("0", difficulty), b.Nonce, 1,
             {n \in {b.Nonce} : HasPrefix(Attempt(b, n).Hash, Repeat("0", difficulty))})

----------------------------------------------------------------------------
(* Transactions and block construction *)

Times == 1..MaxTime

\* AddBlock's maxBlocks and the retainCount it prunes to
maxBlocks == 100
retainBlocks == 50

\* outcomes of PruneAndArchive's two fallible steps
Outcomes == {"ok", "marshal_error", "write_error"}

NewTransaction(sender, recipient, amount, nonce, now) ==
    [Sender |-> sender, Recipient |-> recipient, Amount |-> amount,
     Timestamp |-> now, Nonce |-> nonce]

COINBASE == <<"C">>
main == <<"m", "a", "i", "n">>

\* CreateBlock putting the coinbase transaction after the pool's transactions
CreateBlock_CoinbaseLast(index, prevHash, relationshipType, receivers, text, audio, video, pool, difficulty, minerAddress, reward, now) ==
    [mined |->
        MineBlock([Index |-> index, Timestamp |-> now, PrevHash |-> prevHash,
                   Hash |-> <<>>, Nonce |-> 0,
                   RelationshipType |-> relationshipType, Receivers |-> receivers,
                   TextData |-> text, AudioData |-> audio, VideoData |-> video,
                   Transactions |->
                      Append(pool, NewTransaction(COINBASE, minerAddress, reward, 0, now)),
                   SubBlocks |-> <<>>,
                   Difficulty |-> difficulty, Category |-> main],
                  difficulty),
     pool |-> Append(pool, NewTransaction(COINBASE, minerAddress, reward, 0, now))]

\* CreateBlock: the coinbase transaction is prepended to the pool itself, the
\* block takes the pool's slice and is mined.  mined is MineBlock's outcome,
\* pool the pool after the call
CreateBlock(index, prevHash, relationshipType, receivers, text, audio, video, pool, difficulty, minerAddress, reward, now) ==
    [mined |->
        MineBlock([Index |-> index, Timestamp |-> now, PrevHash |-> prevHash,
                   Hash |-> <<>>, Nonce |-> 0,
                   RelationshipType |-> relationshipType, Receivers |-> receivers,
                   TextData |-> text, AudioData |-> audio, VideoData |-> video,
                   Transactions |->
                      <<NewTransaction(COINBASE, minerAddress, reward, 0, now)>> \o pool,
                   SubBlocks |-> <<>>,
                   Difficulty |-> difficulty, Category |-> main],
                  difficulty),
     pool |-> <<NewTransaction(COINBASE, minerAddress, reward, 0, now)>> \o pool]

\* the archive file PruneAndArchive writes at second now
ArchiveFile(archiveFilename, now) == <<archiveFilename, now>>

\* PruneAndArchive keeping the oldest retainCount blocks instead of the newest
PruneAndArchive_KeepsOldest(blocks, fs, retainCount, archiveFilename, io, now) ==
    IF Len(blocks) <= retainCount \/ io # "ok" THEN
        [err |-> IF Len(blocks) <= retainCount THEN "nil" ELSE "failed",
         Blocks |-> blocks, files |-> fs]
    ELSE
        [err |-> "nil",
         Blocks |-> SubSeq(blocks, 1, retainCount),
         files |-> [f \in DOMAIN fs \cup {ArchiveFile(archiveFilename, now)} |->
                      IF f = ArchiveFile(archiveFilename, now)
                      THEN SubSeq(blocks, retainCount + 1, Len(blocks)) ELSE fs[f]]]

\* PruneAndArchive cutting the chain before it writes the archive file
PruneAndArchive_CutsFirst(blocks, fs, retainCount, archiveFilename, io, now) ==
    IF Len(blocks) <= retainCount THEN [err |-> "nil", Blocks |-> blocks, files |-> fs]
    ELSE IF io = "marshal_error" THEN
        [err |-> "failed to marshal archive blocks", Blocks |-> blocks, files |-> fs]
    ELSE
        [err |-> IF io = "ok" THEN "nil" ELSE "failed to write archive file",
         Blocks |-> SubSeq(blocks, Len(blocks) - retainCount + 1, Len(blocks)),
         files |-> IF io # "ok" THEN fs
                   ELSE [f \in DOMAIN fs \cup {ArchiveFile(archiveFilename, now)} |->
                            IF f = ArchiveFile(archiveFilename, now)
                            THEN SubSeq(blocks, 1, Len(blocks) - retainCount)
                            ELSE fs[f]]]

\* PruneAndArchive on chain blocks with the disk fs; io is what marshalling and
\* writing do this time.  err is "nil" or the error returned
PruneAndArchive(blocks, fs, retainCount, archiveFilename, io, now) ==
    LET totalBlocks == Len(blocks) IN
    IF totalBlocks <= retainCount THEN
        [err |-> "nil", Blocks |-> blocks, files |-> fs]
    ELSE
        LET archiveBlocks == SubSeq(blocks, 1, totalBlocks - retainCount) IN
        IF io = "marshal_error" THEN
            [err |-> "failed to marshal archive blocks", Blocks |-> blocks, files |-> fs]
        ELSE IF io = "write_error" THEN
            [err |-> "failed to write archive file", Blocks |-> blocks, files |-> fs]
        ELSE
            [err |-> "nil",
             Blocks |-> SubSeq(blocks, totalBlocks - retainCount + 1, totalBlocks),
             files |-> [f \in DOMAIN fs \cup {ArchiveFile(archiveFilename, now)} |->
                          IF f = ArchiveFile(archiveFilename, now)
                          THEN archiveBlocks ELSE fs[f]]]

archive == <<"a">>

\* AfterAppend pruning from maxBlocks blocks on instead of past maxBlocks
AfterAppend_AtMaxBlocks(appended, fs, io, now, p) ==
    IF Len(appended) >= maxBlocks
    THEN [Blocks |-> p.Blocks, files |-> p.files, pruned |-> TRUE, err |-> p.err]
    ELSE [Blocks |-> appended, files |-> fs, pruned |-> FALSE, err |-> "nil"]

\* what AddBlock does once b is appended
AfterAppend(appended, fs, io, now, p) ==
    IF Len(appended) > maxBlocks
    THEN [Blocks |-> p.Blocks, files |-> p.files, pruned |-> TRUE, err |-> p.err]
    ELSE [Blocks |-> appended, files |-> fs, pruned |-> FALSE, err |-> "nil"]

\* AddBlock: append, then prune to retainBlocks once over maxBlocks; a pruning
\* error is printed and dropped
AddBlock(blocks, fs, b, io, now) ==
    AfterAppend(Append(blocks, b), fs, io, now,
                PruneAndArchive(Append(blocks, b), fs, retainBlocks, archive, io, now))

\* the sum of the difficulties of chain[lo..hi], by halves
RECURSIVE SumDifficulty(_, _, _)
SumDifficulty(chain, lo, hi) ==
    IF lo > hi THEN 0
    ELSE IF lo = hi THEN chain[lo].Difficulty
    ELSE LET mid == (lo + hi) \div 2
         IN SumDifficulty(chain, lo, mid) + SumDifficulty(chain, mid + 1, hi)

CumulativeDifficulty(chain) == SumDifficulty(chain, 1, Len(chain))

\* IsValidChain without the recomputation of the later blocks' hashes
IsValidChain_LinksOnly(chain) ==
    IF Len(chain) = 0 THEN FALSE
    ELSE IF chain[1].PrevHash # <<>> \/ chain[1].Hash # CalculateHash(chain[1]) THEN FALSE
    ELSE \A i \in 2..Len(chain) : chain[i].PrevHash = chain[i - 1].Hash

IsValidChain(chain) ==
    IF Len(chain) = 0 THEN FALSE
    ELSE IF chain[1].PrevHash # <<>> \/ chain[1].Hash # CalculateHash(chain[1]) THEN FALSE
    ELSE \A i \in 2..Len(chain) :
            /\ chain[i].PrevHash = chain[i - 1].Hash
            /\ chain[i].Hash = CalculateHash(chain[i])

\* ReplaceChain taking a chain of equal cumulative difficulty too
ReplaceChain_OnTie(blocks, newChain) ==
    IF ~IsValidChain(newChain) THEN [ret |-> FALSE, Blocks |-> blocks]
    ELSE IF CumulativeDifficulty(newChain) >= CumulativeDifficulty(blocks)
         THEN [ret |-> TRUE, Blocks |-> newChain]
    ELSE [ret |-> FALSE, Blocks |-> blocks]

\* ReplaceChain: ret is the bool returned
ReplaceChain(blocks, newChain) ==
    IF ~IsValidChain(newChain) THEN [ret |-> FALSE, Blocks |-> blocks]
    ELSE IF CumulativeDifficulty(newChain) > CumulativeDifficulty(blocks)
         THEN [ret |-> TRUE, Blocks |-> newChain]
    ELSE [ret |-> FALSE, Blocks |-> blocks]

----------------------------------------------------------------------------
(* What the callers pass *)

relType == <<"o">>
receiverA == <<<<"r">>>>
textData == <<"t">>
audioData == <<"a">>
videoData == <<"v">>
minerAddress == <<"m">>
\* the miner's reward of 12.5 coins, in quarter coins
reward == 50

TipHash(blocks) == IF Len(blocks) = 0 THEN <<>> ELSE blocks[Len(blocks)].Hash

\* nothing has happened yet
NoOp == [op |-> "none"]

\* one round of the node's mining: CreateBlock on the tip, AddBlock,
\* txPool.Clear().  (The test on the length has the chain evaluated before
\* the block is.)
MineRound(chain) ==
    IF Len(chain) < 0 THEN chain
    ELSE AddBlock(chain, <<>>,
                  CreateBlock(Len(chain), TipHash(chain), relType, receiverA,
                              textData, audioData, videoData, <<>>, 1,
                              minerAddress, reward, 1).mined.block,
                  "ok", 1).Blocks

\* the chain after n more rounds, by halves
RECURSIVE MineRounds(_, _)
MineRounds(chain, n) ==
    IF Len(chain) < 0 \/ n = 0 THEN chain
    ELSE IF n = 1 THEN MineRound(chain)
    ELSE LET half == MineRounds(chain, n \div 2)
         IN MineRounds(half, n - (n \div 2))

MinedChain(n) == MineRounds(<<>>, n)

LongChain == MinedChain(PrefixLen)

----------------------------------------------------------------------------
(* Chains built by CreateBlock and AddBlock alone *)

NoHcm == CandidateBlocks = <<>> /\ hcmLast = NoOp
NoFn == fnIn = NoOp /\ fnOut = NoOp

\* no peers, no handler or call in flight, the mutex free, an empty ledger
NoRest ==
    /\ Peers = <<>> /\ sent = <<>> /\ conns = <<>>
    /\ mu = 0 /\ calls = <<>>
    /\ ledger = <<>>
    /\ Shards = <<>>

NoHist == [linked |-> TRUE, archived |-> TRUE, pruned |-> FALSE, adds |-> 0,
           prunes |-> 0]

InitBuild ==
    /\ Blocks \in {<<>>, LongChain}
    /\ files = <<>>
    /\ txPool = <<>>
    /\ last = NoOp
    /\ hist = NoHist
    /\ NoRest
    /\ NoHcm
    /\ NoFn

\* a caller creates a block on the chain and adds it: the index is the chain's
\* length, the previous hash is whatever the caller passes
CreateAndAdd(prevHash, difficulty, now, io, later) ==
    /\ hist.adds < MaxAdds
    /\ \E c \in {CreateBlock(Len(Blocks), prevHash, relType, receiverA, textData,
                             audioData, videoData, txPool, difficulty,
                             minerAddress, reward, now)} :
        /\ c.mined.returns
        /\ \E a \in {AddBlock(Blocks, files, c.mined.block, io, later)} :
            /\ Blocks' = a.Blocks
            /\ files' = a.files
            /\ txPool' = c.pool
            /\ last' = [op |-> "AddBlock", arg |-> c.mined.block, pre |-> Blocks,
                        preFiles |-> files, pruned |-> a.pruned, err |-> a.err]
            /\ hist' = [linked |-> hist.linked /\ prevHash = TipHash(Blocks),
                        archived |-> hist.archived /\ a.err = "nil",
                        pruned |-> hist.pruned \/ (a.pruned /\ a.err = "nil"),
                        adds |-> hist.adds + 1,
                        prunes |-> hist.prunes]
    /\ UNCHANGED <<hcmVars, fnVars, restVars>>

\* the previous hashes a caller may pass: the tip's, or another
PrevHashes(blocks) == {TipHash(blocks), IF Len(blocks) = 0 THEN <<"0">> ELSE <<>>}

NextBuild ==
    \E prevHash \in PrevHashes(Blocks), now \in Times :
        \E io \in IF Len(Blocks) + 1 > maxBlocks THEN Outcomes ELSE {"ok"} :
            CreateAndAdd(prevHash, 1, now, io, now)

SpecBuild == InitBuild /\ [][NextBuild]_vars

SelfConsistent(chain) == \A i \in DOMAIN chain : chain[i].Hash = CalculateHash(chain[i])
Linked(chain) == \A i \in DOMAIN chain : i > 1 => chain[i].PrevHash = chain[i - 1].Hash

\* C2: a chain built solely by CreateBlock and then AddBlock, for any number
\* of blocks, satisfies IsValidChain in every state reached; stated here of
\* the builds whose every block is created with the hash of the current tip
\* as its previous hash (empty on the empty chain), the arguments most
\* favourable to the claim
C2_BuiltChainValid ==
    (last.op = "AddBlock" /\ hist.linked) => IsValidChain(Blocks)

\* C2's case: a chain of linked, self-consistent blocks that has grown past
\* maxBlocks, whose oldest blocks AddBlock has archived
C2_Witness ==
    /\ last.op = "AddBlock" /\ hist.linked /\ hist.pruned
    /\ Len(Blocks) = retainBlocks
    /\ SelfConsistent(Blocks) /\ Linked(Blocks)
    /\ Blocks[1].PrevHash # <<>>

LastBlocks(chain, n) == SubSeq(chain, Len(chain) - n + 1, Len(chain))

\* C10: after AddBlock(b), b is the last block; when the appended chain is
\* longer than 100 and archiving succeeds, the chain is its 50 most recent
\* blocks, so with archiving always successful the length never exceeds 100;
\* when archiving fails, b stays appended and no block is removed
C10_AddBlockBounded ==
    /\ last.op = "AddBlock" =>
        LET appended == Append(last.pre, last.arg) IN
        /\ Blocks # <<>> /\ Blocks[Len(Blocks)] = last.arg
        /\ last.pruned <=> Len(appended) > 100
        /\ (last.pruned /\ last.err = "nil") => Blocks = LastBlocks(appended, 50)
        /\ (~last.pruned \/ last.err # "nil") => Blocks = appended
        /\ ~last.pruned => files = last.preFiles
    /\ hist.archived => Len(Blocks) <= 100

\* C10's case: an AddBlock that took the chain over 100 blocks and pruned it
C10_Witness ==
    /\ last.op = "AddBlock" /\ last.pruned /\ last.err = "nil"
    /\ Len(last.pre) = 100 /\ Len(Blocks) = 50

----------------------------------------------------------------------------
(* Chains received from outside *)

\* a block as a peer or a test assembles it, not yet hashed
RawBlock(index, prevHash, difficulty) ==
    [Index |-> index, Timestamp |-> 1, PrevHash |-> prevHash, Hash |-> <<>>,
     Nonce |-> 0, RelationshipType |-> relType, Receivers |-> receiverA,
     TextData |-> textData, AudioData |-> audioData, VideoData |-> videoData,
     Transactions |-> <<>>, SubBlocks |-> <<>>, Difficulty |-> difficulty,
     Category |-> main]

\* b.Hash = CalculateHash(b), as the test does after injecting a difficulty
Seal(b) == [b EXCEPT !.Hash = CalculateHash(b)]

\* b with its text changed and its hash kept
Tamper(b) == [b EXCEPT !.TextData = <<"x">>]

\* the test's blocks: a genesis of difficulty 3, a second block of difficulty 3
\* on it, and a competing second block with difficulty 5 injected
Genesis == Seal(RawBlock(0, <<>>, 3))
LocalBlock2 == Seal(RawBlock(1, Genesis.Hash, 3))
IncomingBlock2 == Seal(RawBlock(1, Genesis.Hash, 5))
\* a genesis claiming more difficulty than the mined chain sums to
HeavyGenesis == Seal(RawBlock(0, <<>>, 200))
\* a block on a predecessor nobody has
Orphan == Seal(RawBlock(1, <<"f", "f">>, 9))

ForkBlocks == {Genesis, Tamper(Genesis), LocalBlock2, IncomingBlock2,
               Tamper(IncomingBlock2)}
CandBlocks == ForkBlocks \cup {HeavyGenesis, Orphan}

\* the sequences over S of length at most n
SeqsUpTo(S, n) == UNION {[1..k -> S] : k \in 0..n}

ForkChains == SeqsUpTo(ForkBlocks, MaxChainLen)
CandChains == SeqsUpTo(CandBlocks, MaxChainLen)

----------------------------------------------------------------------------
(* Fork choice *)

InitFork ==
    /\ Blocks = <<>>
    /\ files = <<>>
    /\ txPool = <<>>
    /\ last = NoOp
    /\ hist = NoHist
    /\ NoRest
    /\ NoHcm
    /\ NoFn

DoReplaceChain(newChain) ==
    /\ \E r \in {ReplaceChain(Blocks, newChain)} :
        /\ Blocks' = r.Blocks
        /\ last' = [op |-> "ReplaceChain", arg |-> newChain, pre |-> Blocks,
                    ret |-> r.ret]
    /\ UNCHANGED <<files, txPool, hist, hcmVars, fnVars, restVars>>

NextFork == \E newChain \in ForkChains : DoReplaceChain(newChain)

SpecFork == InitFork /\ [][NextFork]_vars

\* C1: ReplaceChain(newChain) returns true and makes newChain the local chain
\* exactly when newChain is valid and its cumulative difficulty is strictly
\* greater than the local chain's; otherwise it returns false and the local
\* chain is unchanged.  With weights 6 and 8 on one genesis: 8 replaces 6 and
\* 6 does not replace 8
C1_ReplaceIffValidAndHeavier ==
    last.op = "ReplaceChain" =>
        /\ last.ret <=> (/\ IsValidChain(last.arg)
                         /\ CumulativeDifficulty(last.arg) > CumulativeDifficulty(last.pre))
        /\ Blocks = IF last.ret THEN last.arg ELSE last.pre
        /\ (/\ last.pre = <<Genesis, LocalBlock2>>
            /\ last.arg = <<Genesis, IncomingBlock2>>) => last.ret
        /\ (/\ last.pre = <<Genesis, IncomingBlock2>>
            /\ last.arg = <<Genesis, LocalBlock2>>) => ~last.ret

\* C1's case: the chain of weight 6 replaced by the chain of weight 8 on the
\* same genesis
C1_Witness ==
    /\ last.op = "ReplaceChain" /\ last.ret
    /\ IsValidChain(last.pre) /\ CumulativeDifficulty(last.pre) = 6
    /\ CumulativeDifficulty(last.arg) = 8
    /\ last.pre[1] = last.arg[1]
    /\ Blocks = last.arg

----------------------------------------------------------------------------
(* Chain validation as a function *)

InitValid ==
    /\ Blocks = <<>>
    /\ files = <<>>
    /\ txPool = <<>>
    /\ last = NoOp
    /\ hist = NoHist
    /\ NoRest
    /\ NoHcm
    /\ fnIn \in {[op |-> "IsValidChain", chain |-> c] : c \in CandChains}
    /\ fnOut = NoOp

DoIsValidChain ==
    /\ fnIn.op = "IsValidChain"
    /\ fnOut = NoOp
    /\ fnOut' = [op |-> "IsValidChain", ret |-> IsValidChain(fnIn.chain)]
    /\ UNCHANGED <<chainVars, hcmVars, fnIn, restVars>>

SpecValid == InitValid /\ [][DoIsValidChain]_vars

HashFails(b) == b.Hash # CalculateHash(b)

\* C4: IsValidChain is false for the empty chain, false if block 0 has a
\* non-empty previous hash or a stored hash other than its recomputed hash,
\* false if some later block's previous hash differs from its predecessor's
\* hash or its stored hash from its recomputed hash, and true otherwise; the
\* chain it was given is as it was
C4_IsValidChainDecides ==
    fnOut.op = "IsValidChain" =>
        /\ fnIn.chain \in CandChains
        /\ fnOut.ret = 
            ~ \/ Len(fnIn.chain) = 0
              \/ fnIn.chain[1].PrevHash # <<>>
              \/ HashFails(fnIn.chain[1])
              \/ \E i \in 2..Len(fnIn.chain) :
                    \/ fnIn.chain[i].PrevHash # fnIn.chain[i - 1].Hash
                    \/ HashFails(fnIn.chain[i])

\* C4's case: a chain of two blocks rejected for its second block alone
C4_Witness ==
    /\ fnOut.op = "IsValidChain" /\ ~fnOut.ret
    /\ Len(fnIn.chain) = 2
    /\ IsValidChain(<<fnIn.chain[1]>>)
    /\ fnIn.chain[2].PrevHash = fnIn.chain[1].Hash

----------------------------------------------------------------------------
(* Pruning *)

\* the retain counts PruneAndArchive is called with: the callers' 50, and
\* small ones that cut short chains
RetainCounts == {0, 1, 2, retainBlocks}

\* the chain is one the miner has built, short or long; the disk is empty or
\* holds the archive of an earlier pruning
InitPrune ==
    /\ Blocks \in {MinedChain(n) : n \in 0..MaxAdds} \cup {LongChain}
    /\ files \in {<<>>, [f \in {ArchiveFile(archive, 1)} |-> <<Genesis>>]}
    /\ txPool = <<>>
    /\ last = NoOp
    /\ hist = NoHist
    /\ NoRest
    /\ NoHcm
    /\ NoFn

DoPruneAndArchive(retainCount, io, now) ==
    /\ hist.prunes < MaxPrunes
    /\ \E r \in {PruneAndArchive(Blocks, files, retainCount, archive, io, now)} :
        /\ Blocks' = r.Blocks
        /\ files' = r.files
        /\ last' = [op |-> "PruneAndArchive", retainCount |-> retainCount,
                    io |-> io, now |-> now, pre |-> Blocks, preFiles |-> files,
                    err |-> r.err]
        /\ hist' = [hist EXCEPT !.pruned = hist.pruned \/ r.Blocks # Blocks,
                                !.prunes = hist.prunes + 1]
    /\ UNCHANGED <<txPool, hcmVars, fnVars, restVars>>

NextPrune ==
    \E retainCount \in RetainCounts, io \in Outcomes, now \in Times :
        DoPruneAndArchive(retainCount, io, now)

SpecPrune == InitPrune /\ [][NextPrune]_vars

\* C7: PruneAndArchive(retainCount, name) on a chain of L blocks, when
\* marshalling and writing succeed: with L <= retainCount the chain is
\* unchanged and no file is written; otherwise the oldest L - retainCount
\* blocks are in the archive file in their order and the chain is its
\* retainCount newest blocks, so that archive followed by chain is the
\* original chain; and a second call with the same retainCount changes nothing
C7_PruneSplitsChain ==
    (last.op = "PruneAndArchive" /\ last.io = "ok") =>
        LET L == Len(last.pre)
            k == last.retainCount
            file == ArchiveFile(archive, last.now)
        IN  /\ last.err = "nil"
            /\ L <= k => Blocks = last.pre /\ files = last.preFiles
            /\ L > k =>
                /\ file \in DOMAIN files
                /\ Len(files[file]) = L - k /\ Len(Blocks) = k
                /\ \A i \in 1..(L - k) : files[file][i] = last.pre[i]
                /\ \A i \in 1..k : Blocks[i] = last.pre[L - k + i]
                /\ files[file] \o Blocks = last.pre
                /\ \A f \in DOMAIN last.preFiles \ {file} : files[f] = last.preFiles[f]
            /\ \A io \in Outcomes, now \in Times :
                PruneAndArchive(Blocks, files, k, archive, io, now)
                    = [err |-> "nil", Blocks |-> Blocks, files |-> files]

\* C7's case: a successful call that archived at least two blocks and kept
\* at least one
C7_Witness ==
    /\ last.op = "PruneAndArchive" /\ last.io = "ok"
    /\ Len(last.pre) >= last.retainCount + 2
    /\ last.retainCount >= 1
    /\ Len(Blocks) = last.retainCount

\* C8: pruning a valid chain longer than retainCount leaves a retained chain
\* that satisfies IsValidChain
C8_RetainedChainValid ==
    (/\ last.op = "PruneAndArchive" /\ last.err = "nil"
     /\ Len(last.pre) > last.retainCount
     /\ IsValidChain(last.pre)) => IsValidChain(Blocks)

\* C8's case: a valid chain of more than 50 blocks pruned to its 50 newest
C8_Witness ==
    /\ last.op = "PruneAndArchive" /\ last.err = "nil"
    /\ last.retainCount = retainBlocks
    /\ IsValidChain(last.pre)
    /\ Len(Blocks) = retainBlocks /\ Len(last.pre) > retainBlocks
    /\ ~IsValidChain(Blocks)

\* C9: when marshalling fails or the archive file cannot be written,
\* PruneAndArchive returns an error and the chain is unchanged; it returns an
\* error in no other case
C9_FailureKeepsChain ==
    last.op = "PruneAndArchive" =>
        /\ last.err # "nil" <=> (last.io # "ok" /\ Len(last.pre) > last.retainCount)
        /\ last.err # "nil" => Blocks = last.pre

\* C9's case: a write failure on a chain that had blocks to archive
C9_Witness ==
    /\ last.op = "PruneAndArchive" /\ last.io = "write_error"
    /\ Len(last.pre) > last.retainCount
    /\ last.err # "nil" /\ Blocks = last.pre

----------------------------------------------------------------------------
(* Mining as a function *)

\* blocks as CreateBlock hands them to MineBlock, and blocks mined before
MineInputs ==
    {[RawBlock(index, prevHash, difficulty) EXCEPT !.Timestamp = now, !.Nonce = nonce] :
        index \in 0..MaxAdds, prevHash \in {<<>>, Genesis.Hash},
        difficulty \in 0..MaxDifficulty, now \in Times, nonce \in {0, 7}}

InitMine ==
    /\ Blocks = <<>>
    /\ files = <<>>
    /\ txPool = <<>>
    /\ last = NoOp
    /\ hist = NoHist
    /\ NoRest
    /\ NoHcm
    /\ fnIn \in {[op |-> "MineBlock", block |-> b, difficulty |-> b.Difficulty] :
                    b \in MineInputs}
    /\ fnOut = NoOp

\* MineBlock runs to its return; a search that passes MaxNonce has not returned
DoMineBlock ==
    /\ fnIn.op = "MineBlock"
    /\ fnOut = NoOp
    /\ \E r \in {MineBlock(fnIn.block, fnIn.difficulty)} :
        /\ r.returns
        /\ fnOut' = [op |-> "MineBlock", block |-> r.block]
    /\ UNCHANGED <<chainVars, hcmVars, fnIn, restVars>>

SpecMine == InitMine /\ [][DoMineBlock]_vars

\* C5: after MineBlock(block, d) returns, block.Hash equals CalculateHash(block)
\* for the block's final nonce, and block.Hash has exactly d leading zero hex
\* characters
C5_ExactlyDifficultyZeros ==
    fnOut.op = "MineBlock" =>
        /\ fnOut.block.Hash = CalculateHash(fnOut.block)
        /\ LeadingZeros(fnOut.block.Hash) = fnIn.difficulty

\* C5 amended: after MineBlock(block, d) returns, block.Hash equals
\* CalculateHash(block) for the block's final nonce, block.Hash has at least d
\* leading zero hex characters, the nonce has not decreased and no other field
\* has changed
C5_AtLeastDifficultyZeros ==
    fnOut.op = "MineBlock" =>
        /\ fnOut.block.Hash = CalculateHash(fnOut.block)
        /\ LeadingZeros(fnOut.block.Hash) >= fnIn.difficulty
        /\ fnOut.block.Nonce >= fnIn.block.Nonce
        /\ fnOut.block = [fnIn.block EXCEPT !.Nonce = fnOut.block.Nonce,
                                            !.Hash = fnOut.block.Hash]

\* C5's case: a search that had to move the nonce and ended on a hash with
\* more leading zeros than the difficulty asked for
C5_Witness ==
    /\ fnOut.op = "MineBlock"
    /\ fnIn.difficulty >= 1
    /\ fnOut.block.Nonce > fnIn.block.Nonce
    /\ LeadingZeros(fnOut.block.Hash) > fnIn.difficulty

----------------------------------------------------------------------------
(* The hash input as a function *)

HashedFields == {"Index", "Timestamp", "PrevHash", "RelationshipType", "TextData",
                 "AudioData", "VideoData", "Receivers", "Difficulty", "Nonce",
                 "Category"}

\* values a field is changed to
FieldValues(field) ==
    IF field \in {"Index", "Timestamp", "Difficulty", "Nonce"} THEN {0, 1, 2, 11, 12}
    ELSE IF field = "Receivers"
        THEN {<<>>, <<<<>>>>, <<<<"a">>, <<"b">>>>, <<<<"a", " ", "b">>>>, <<<<"a">>>>}
    ELSE {<<>>, <<"a">>, <<"0">>, <<"1">>, <<"1", "1">>}

\* a block addressed to two receivers
TwoReceivers == Seal([RawBlock(1, Genesis.Hash, 1) EXCEPT !.Receivers = <<<<"a">>, <<"b">>>>])

\* a block and the same block with one field changed
HashInputs ==
    UNION {{[a |-> blk, field |-> fld, b |-> [blk EXCEPT ![fld] = v]] :
                v \in FieldValues(fld)} :
            blk \in {Genesis, TwoReceivers}, fld \in HashedFields}

InitHash ==
    /\ Blocks = <<>>
    /\ files = <<>>
    /\ txPool = <<>>
    /\ last = NoOp
    /\ hist = NoHist
    /\ NoRest
    /\ NoHcm
    /\ fnIn \in {[op |-> "CalculateHash", a |-> p.a, field |-> p.field, b |-> p.b] :
                    p \in {q \in HashInputs : q.a # q.b}}
    /\ fnOut = NoOp

DoCalculateHash ==
    /\ fnIn.op = "CalculateHash"
    /\ fnOut = NoOp
    /\ fnOut' = [op |-> "CalculateHash",
                 recordA |-> HashRecord(fnIn.a), recordB |-> HashRecord(fnIn.b),
                 hashA |-> CalculateHash(fnIn.a), hashB |-> CalculateHash(fnIn.b)]
    /\ UNCHANGED <<chainVars, hcmVars, fnIn, restVars>>

SpecHash == InitHash /\ [][DoCalculateHash]_vars

\* C6: changing the value of any single hashed field of a block while keeping
\* all the others changes the input CalculateHash digests: two blocks that
\* differ in a field never present the same hash input
C6_FieldChangeChangesInput ==
    (fnOut.op = "CalculateHash" /\ fnIn.a # fnIn.b) => fnOut.recordA # fnOut.recordB

\* C6's case: two blocks that differ in their receivers alone and present the
\* same hash input
C6_Witness ==
    /\ fnOut.op = "CalculateHash"
    /\ fnIn.field = "Receivers"
    /\ fnIn.a.Receivers # fnIn.b.Receivers
    /\ fnOut.recordA = fnOut.recordB
    /\ fnOut.hashA = fnOut.hashB

----------------------------------------------------------------------------
(* Hybrid consensus *)

\* the stakes main registers, in whole coins
Stakeholders == [Miner1 |-> 50, Validator1 |-> 30, Validator2 |-> 20]
Validators == DOMAIN Stakeholders

\* VoteThreshold 0.67, in hundredths
VoteThresholdPct == 67

\* int(stake * 100) for a stake of whole coins
ScaleStake(stake) == stake * 100

\* int(float64(totalStake) * VoteThreshold): the product truncated
Threshold(totalStake) == (totalStake * VoteThresholdPct) \div 100

ProposeBlock(candidates, b) ==
    Append(candidates, [Block |-> b, Work |-> b.Nonce, ValidVotes |-> 0])

\* CastVote counting a vote whether it approves or not
CastVote_AnyVote(candidates, candidateIndex, validator, vote) ==
    IF candidateIndex < 0 \/ candidateIndex >= Len(candidates) THEN candidates
    ELSE IF validator \notin DOMAIN Stakeholders THEN candidates
    ELSE [candidates EXCEPT ![candidateIndex + 1].ValidVotes =
                @ + ScaleStake(Stakeholders[validator])]

\* CastVote taking the stake back on a disapproving vote
CastVote_Retracts(candidates, candidateIndex, validator, vote) ==
    IF candidateIndex < 0 \/ candidateIndex >= Len(candidates) THEN candidates
    ELSE IF validator \notin DOMAIN Stakeholders THEN candidates
    ELSE [candidates EXCEPT ![candidateIndex + 1].ValidVotes =
                IF vote THEN @ + ScaleStake(Stakeholders[validator])
                ELSE @ - ScaleStake(Stakeholders[validator])]

\* candidateIndex counts from 0, as in the code
CastVote(candidates, candidateIndex, validator, vote) ==
    IF candidateIndex < 0 \/ candidateIndex >= Len(candidates) THEN candidates
    ELSE IF vote THEN
        IF validator \notin DOMAIN Stakeholders THEN candidates
        ELSE [candidates EXCEPT ![candidateIndex + 1].ValidVotes =
                    @ + ScaleStake(Stakeholders[validator])]
    ELSE candidates

\* the position, from 1, of the candidate FinalizeBlock returns the block of;
\* 0 when it returns nil
FinalizeBlock(candidates, totalStake) ==
    LET passing == {i \in DOMAIN candidates :
                        candidates[i].ValidVotes >= Threshold(totalStake)}
    IN  IF passing = {} THEN 0 ELSE CHOOSE i \in passing : \A j \in passing : i <= j

\* the total stakes FinalizeBlock is called with: main's 100, and totals whose
\* threshold the tallies can miss
TotalStakes == {100, 2986, 10000}

NoVotes == [v \in Validators |-> 0]

\* hcmLast.approvals[i][v] counts the approving votes candidate i has received
\* from stakeholder v
InitHcm ==
    /\ Blocks = <<>>
    /\ files = <<>>
    /\ txPool = <<>>
    /\ last = NoOp
    /\ hist = NoHist
    /\ NoRest
    /\ CandidateBlocks = <<>>
    /\ hcmLast = [op |-> "none", approvals |-> <<>>, ops |-> 0]
    /\ NoFn

DoProposeBlock(b) ==
    /\ hcmLast.ops < MaxHcmOps
    /\ Len(CandidateBlocks) < MaxCand
    /\ CandidateBlocks' = ProposeBlock(CandidateBlocks, b)
    /\ hcmLast' = [op |-> "ProposeBlock", approvals |-> Append(hcmLast.approvals, NoVotes),
                   ops |-> hcmLast.ops + 1, pre |-> CandidateBlocks, b |-> b]
    /\ UNCHANGED <<chainVars, fnVars, restVars>>

DoCastVote(candidateIndex, validator, vote) ==
    /\ hcmLast.ops < MaxHcmOps
    /\ CandidateBlocks' = CastVote(CandidateBlocks, candidateIndex, validator, vote)
    /\ hcmLast' = [op |-> "CastVote",
                   approvals |->
                        IF /\ candidateIndex + 1 \in DOMAIN CandidateBlocks
                           /\ vote /\ validator \in Validators
                        THEN [hcmLast.approvals EXCEPT ![candidateIndex + 1][validator] = @ + 1]
                        ELSE hcmLast.approvals,
                   ops |-> hcmLast.ops + 1, pre |-> CandidateBlocks,
                   candidateIndex |-> candidateIndex, validator |-> validator,
                   vote |-> vote]
    /\ UNCHANGED <<chainVars, fnVars, restVars>>

DoFinalizeBlock(totalStake) ==
    /\ hcmLast.ops < MaxHcmOps
    /\ hcmLast' = [op |-> "FinalizeBlock", approvals |-> hcmLast.approvals,
                   ops |-> hcmLast.ops + 1, pre |-> CandidateBlocks,
                   totalStake |-> totalStake,
                   ret |-> FinalizeBlock(CandidateBlocks, totalStake)]
    /\ UNCHANGED <<chainVars, CandidateBlocks, fnVars, restVars>>

NextHcm ==
    \/ \E b \in {LocalBlock2, IncomingBlock2} : DoProposeBlock(b)
    \/ \E candidateIndex \in (-1)..Len(CandidateBlocks),
          validator \in Validators \cup {"Stranger"}, vote \in BOOLEAN :
            DoCastVote(candidateIndex, validator, vote)
    \/ \E totalStake \in TotalStakes : DoFinalizeBlock(totalStake)

SpecHcm == InitHcm /\ [][NextHcm]_vars

\* candidate i has received exactly one approving vote from each stakeholder
\* of S and none from the others
ApprovedBy(i, S) ==
    \A v \in Validators : hcmLast.approvals[i][v] = IF v \in S THEN 1 ELSE 0

\* C3: with stakeholders Miner1 50, Validator1 30, Validator2 20, total stake
\* 100 and threshold 0.67, a candidate approved only by Validator1 and
\* Validator2 is not returned by FinalizeBlock(100), and a candidate approved
\* by Miner1 and Validator1 is returned
C3_TwoThirdsOfStakeFinalizes ==
    (hcmLast.op = "FinalizeBlock" /\ hcmLast.totalStake = 100
        /\ Len(CandidateBlocks) = 1) =>
        /\ ApprovedBy(1, {"Validator1", "Validator2"}) => hcmLast.ret # 1
        /\ ApprovedBy(1, {"Miner1", "Validator1"}) => hcmLast.ret = 1

\* C3's case: main's run, one candidate approved by Validator1 and Validator2,
\* 5000 votes against a threshold of 67, returned by FinalizeBlock(100)
C3_Witness ==
    /\ hcmLast.op = "FinalizeBlock" /\ hcmLast.totalStake = 100
    /\ Len(CandidateBlocks) = 1
    /\ ApprovedBy(1, {"Validator1", "Validator2"})
    /\ CandidateBlocks[1].ValidVotes = 5000
    /\ Threshold(100) = 67
    /\ hcmLast.ret = 1

----------------------------------------------------------------------------
(* The node's message handlers, one message at a time *)

\* a message whose data json.Unmarshal refuses
Unparsable(command) == [Command |-> command, parses |-> FALSE]

\* BroadcastChainUpdate: one goroutine per known peer dials it and sends the
\* chain marshalled before; up are the peers that accept the connection
BroadcastChainUpdate(peers, blocks, up) ==
    [i \in DOMAIN peers |->
        [to |-> peers[i], Command |-> "CHAIN_UPDATE", chain |-> blocks,
         dialed |-> peers[i] \in up]]

\* handleNewBlock with the append and the broadcast of a block that passes
\* on its previous hash alone
handleNewBlock_LinkOnly(blocks, peers, msg, up) ==
    IF ~msg.parses THEN [Blocks |-> blocks, sent |-> <<>>]
    ELSE IF msg.block.PrevHash = blocks[Len(blocks)].Hash
    THEN [Blocks |-> Append(blocks, msg.block),
          sent |-> BroadcastChainUpdate(peers, Append(blocks, msg.block), up)]
    ELSE [Blocks |-> blocks, sent |-> <<>>]

\* handleNewBlock on a chain that has a last block
handleNewBlock(blocks, peers, msg, up) ==
    IF ~msg.parses THEN [Blocks |-> blocks, sent |-> <<>>]
    ELSE IF /\ msg.block.PrevHash = blocks[Len(blocks)].Hash
            /\ msg.block.Hash = CalculateHash(msg.block)
    THEN [Blocks |-> Append(blocks, msg.block),
          sent |-> BroadcastChainUpdate(peers, Append(blocks, msg.block), up)]
    ELSE [Blocks |-> blocks, sent |-> <<>>]

\* handleChainUpdate adopting every valid chain it receives
handleChainUpdate_AnyValid(blocks, msg) ==
    IF ~msg.parses THEN blocks
    ELSE IF IsValidChain(msg.chain) THEN msg.chain
    ELSE blocks

\* handleChainUpdate, which GET_CHAIN_RESPONSE and CHAIN_UPDATE both reach
handleChainUpdate(blocks, msg) ==
    IF ~msg.parses THEN blocks
    ELSE IF IsValidChain(msg.chain) THEN ReplaceChain(blocks, msg.chain).Blocks
    ELSE blocks

\* a block a peer has built on the tip of blocks
NextBlock(blocks, text) ==
    Seal([RawBlock(Len(blocks), TipHash(blocks), 1) EXCEPT !.TextData = text])

\* the NEW_BLOCK messages a peer may send to a node whose chain is blocks
NewBlockMessages(blocks) ==
    {Unparsable("NEW_BLOCK")} \cup
    {[Command |-> "NEW_BLOCK", parses |-> TRUE, block |-> b] :
        b \in {NextBlock(blocks, textData), NextBlock(blocks, videoData),
               Tamper(NextBlock(blocks, textData)), Orphan}}

PeerNames == {<<"p", "1">>, <<"p", "2">>}
PeerLists == {<<>>, << <<"p", "1">> >>, << <<"p", "1">>, <<"p", "2">> >>}

\* the node starts on the genesis block main has added
InitGossip ==
    /\ Blocks = <<Genesis>>
    /\ files = <<>>
    /\ txPool = <<>>
    /\ last = NoOp
    /\ hist = NoHist
    /\ NoHcm
    /\ NoFn
    /\ Peers \in PeerLists
    /\ sent = <<>> /\ conns = <<>>
    /\ mu = 0 /\ calls = <<>>
    /\ ledger = <<>>
    /\ Shards = <<>>

DoHandleNewBlock(msg, up) ==
    /\ hist.adds < MaxAdds
    /\ Len(Blocks) > 0
    /\ \E r \in {handleNewBlock(Blocks, Peers, msg, up)} :
        /\ Blocks' = r.Blocks
        /\ sent' = r.sent
        /\ last' = [op |-> "NEW_BLOCK", msg |-> msg, pre |-> Blocks]
        /\ hist' = [hist EXCEPT !.adds = @ + 1]
    /\ UNCHANGED <<files, txPool, hcmVars, fnVars, Peers, conns, lockVars, ledger, Shards>>

NextGossip ==
    \E msg \in NewBlockMessages(Blocks), up \in SUBSET PeerNames :
        DoHandleNewBlock(msg, up)

SpecGossip == InitGossip /\ [][NextGossip]_vars

\* C11: on a NEW_BLOCK message the node appends the block to its chain and
\* dispatches a CHAIN_UPDATE carrying the extended chain to every known peer
\* if and only if the block's previous hash is the hash of the local tip and
\* its stored hash is its recomputed hash; otherwise the chain is unchanged
\* and nothing is dispatched
C11_NewBlockAppendsAndBroadcasts ==
    last.op = "NEW_BLOCK" =>
        LET tip == last.pre[Len(last.pre)]
            accepted == /\ last.msg.parses
                        /\ last.msg.block.PrevHash = tip.Hash
                        /\ last.msg.block.Hash = CalculateHash(last.msg.block)
        IN  /\ accepted =>
                /\ Blocks = Append(last.pre, last.msg.block)
                /\ Len(sent) = Len(Peers)
                /\ \A i \in DOMAIN Peers :
                    /\ sent[i].to = Peers[i]
                    /\ sent[i].Command = "CHAIN_UPDATE"
                    /\ sent[i].chain = Blocks
            /\ ~accepted => Blocks = last.pre /\ sent = <<>>

\* C11's case: a block on the tip, appended and dispatched to two peers
C11_Witness ==
    /\ last.op = "NEW_BLOCK" /\ last.msg.parses
    /\ Len(Peers) = 2
    /\ Len(Blocks) = Len(last.pre) + 1
    /\ Len(sent) = 2 /\ sent[1].dialed /\ sent[2].dialed
    /\ sent[2].chain[Len(Blocks)] = last.msg.block

----------------------------------------------------------------------------
(* Chain synchronisation, one message at a time *)

ChainCommands == {"GET_CHAIN_RESPONSE", "CHAIN_UPDATE"}

ChainMessages ==
    {Unparsable(c) : c \in ChainCommands} \cup
    {[Command |-> c, parses |-> TRUE, chain |-> ch] :
        c \in ChainCommands, ch \in ForkChains}

Max(a, b) == IF a >= b THEN a ELSE b

\* last.heaviest is the greatest cumulative difficulty of the valid chains
\* received so far
InitSync ==
    /\ Blocks = <<Genesis>>
    /\ files = <<>>
    /\ txPool = <<>>
    /\ last = [op |-> "none", heaviest |-> 0]
    /\ hist = NoHist
    /\ NoRest
    /\ NoHcm
    /\ NoFn

DoHandleChainUpdate(msg) ==
    /\ Blocks' = handleChainUpdate(Blocks, msg)
    /\ last' = [op |-> msg.Command, msg |-> msg, pre |-> Blocks,
                heaviest |->
                    IF msg.parses /\ IsValidChain(msg.chain)
                    THEN Max(last.heaviest, CumulativeDifficulty(msg.chain))
                    ELSE last.heaviest]
    /\ UNCHANGED <<files, txPool, hist, hcmVars, fnVars, restVars>>

NextSync == \E msg \in ChainMessages : DoHandleChainUpdate(msg)

SpecSync == InitSync /\ [][NextSync]_vars

\* C12: each GET_CHAIN_RESPONSE or CHAIN_UPDATE message, handled one at a
\* time, changes the local chain only by adopting the received chain when it
\* is valid and strictly heavier; so the local chain's cumulative difficulty
\* is at least that of every valid chain received, and a later heavier valid
\* chain supersedes an earlier adopted one
C12_SyncAdoptsOnlyHeavier ==
    last.op \in ChainCommands =>
        /\ Blocks = IF /\ last.msg.parses
                       /\ IsValidChain(last.msg.chain)
                       /\ CumulativeDifficulty(last.msg.chain) > CumulativeDifficulty(last.pre)
                    THEN last.msg.chain ELSE last.pre
        /\ CumulativeDifficulty(Blocks) >= CumulativeDifficulty(last.pre)
        /\ CumulativeDifficulty(Blocks) >= last.heaviest

\* C12's case: the adopted chain of weight 6 superseded by a later chain of
\* weight 8
C12_Witness ==
    /\ last.op = "CHAIN_UPDATE"
    /\ last.pre = <<Genesis, LocalBlock2>>
    /\ last.msg.parses /\ last.msg.chain = <<Genesis, IncomingBlock2>>
    /\ Blocks = last.msg.chain
    /\ last.heaviest = 8

----------------------------------------------------------------------------
(* The node's message handlers, one goroutine per inbound connection *)

\* Start runs handleConnection in a goroutine of its own for every accepted
\* connection; no handler takes a lock.  A handler's reads and writes of
\* n.Blockchain.Blocks are steps of their own: conns[c].pc is the access
\* handler c makes next
Conns == 1..MaxConns
Idle == [pc |-> "idle"]

RaceMessages(blocks) ==
    {[Command |-> "NEW_BLOCK", parses |-> TRUE, block |-> b] :
        b \in {NextBlock(blocks, textData), NextBlock(blocks, videoData), Orphan}}
    \cup
    {[Command |-> "CHAIN_UPDATE", parses |-> TRUE, chain |-> ch] :
        ch \in {<<Genesis, LocalBlock2>>, <<Genesis, IncomingBlock2>>}}

InitRace ==
    /\ Blocks = <<Genesis>>
    /\ files = <<>>
    /\ txPool = <<>>
    /\ last = NoOp
    /\ hist = NoHist
    /\ NoHcm
    /\ NoFn
    /\ Peers = << <<"p", "1">> >>
    /\ sent = <<>>
    /\ conns = [c \in Conns |-> Idle]
    /\ mu = 0 /\ calls = <<>>
    /\ ledger = <<>>
    /\ Shards = <<>>

RaceFrame == UNCHANGED <<files, txPool, last, hcmVars, fnVars, Peers, lockVars, ledger, Shards>>

\* handleConnection reads a message and handleMessage routes it
Receive(c, msg) ==
    /\ conns[c].pc = "idle"
    /\ hist.adds < MaxAdds
    /\ conns' = [conns EXCEPT ![c] =
                    [pc |-> IF msg.Command = "NEW_BLOCK" THEN "last" ELSE "weigh",
                     msg |-> msg]]
    /\ hist' = [hist EXCEPT !.adds = @ + 1]
    /\ UNCHANGED <<Blocks, sent>>
    /\ RaceFrame

\* handleNewBlock reads the last block and tests the new block against it
NewBlockTest(c) ==
    /\ conns[c].pc = "last"
    /\ Len(Blocks) > 0
    /\ conns' = [conns EXCEPT ![c] =
                    IF /\ conns[c].msg.block.PrevHash = Blocks[Len(Blocks)].Hash
                       /\ conns[c].msg.block.Hash = CalculateHash(conns[c].msg.block)
                    THEN [pc |-> "load", msg |-> conns[c].msg]
                    ELSE Idle]
    /\ UNCHANGED <<Blocks, sent, hist>>
    /\ RaceFrame

\* append(n.Blockchain.Blocks, newBlock) reads the slice
NewBlockLoad(c) ==
    /\ conns[c].pc = "load"
    /\ conns' = [conns EXCEPT ![c] = [pc |-> "store", msg |-> conns[c].msg,
                                      slice |-> Blocks]]
    /\ UNCHANGED <<Blocks, sent, hist>>
    /\ RaceFrame

\* n.Blockchain.Blocks = the slice read, with newBlock after it
NewBlockStore(c) ==
    /\ conns[c].pc = "store"
    /\ Blocks' = Append(conns[c].slice, conns[c].msg.block)
    /\ conns' = [conns EXCEPT ![c] = [pc |-> "broadcast"]]
    /\ UNCHANGED <<sent, hist>>
    /\ RaceFrame

\* BroadcastChainUpdate reads the chain and sends it
NewBlockBroadcast(c) ==
    /\ conns[c].pc = "broadcast"
    /\ sent' = BroadcastChainUpdate(Peers, Blocks, PeerNames)
    /\ conns' = [conns EXCEPT ![c] = Idle]
    /\ UNCHANGED <<Blocks, hist>>
    /\ RaceFrame

\* handleChainUpdate validates the received chain and ReplaceChain reads the
\* local chain to weigh it
ChainUpdateWeigh(c) ==
    /\ conns[c].pc = "weigh"
    /\ conns' = [conns EXCEPT ![c] =
                    IF /\ IsValidChain(conns[c].msg.chain)
                       /\ CumulativeDifficulty(conns[c].msg.chain) > CumulativeDifficulty(Blocks)
                    THEN [pc |-> "replace", msg |-> conns[c].msg]
                    ELSE Idle]
    /\ UNCHANGED <<Blocks, sent, hist>>
    /\ RaceFrame

\* bc.Blocks = newChain
ChainUpdateReplace(c) ==
    /\ conns[c].pc = "replace"
    /\ Blocks' = conns[c].msg.chain
    /\ conns' = [conns EXCEPT ![c] = Idle]
    /\ UNCHANGED <<sent, hist>>
    /\ RaceFrame

NextRace ==
    \E c \in Conns :
        \/ \E msg \in RaceMessages(Blocks) : Receive(c, msg)
        \/ NewBlockTest(c)
        \/ NewBlockLoad(c)
        \/ NewBlockStore(c)
        \/ NewBlockBroadcast(c)
        \/ ChainUpdateWeigh(c)
        \/ ChainUpdateReplace(c)

SpecRace == InitRace /\ [][NextRace]_vars

\* C13: when inbound connections handle NEW_BLOCK or CHAIN_UPDATE messages
\* concurrently, every check-and-mutate of the local chain is atomic: in every
\* reachable state every block after the first has its previous hash equal to
\* its predecessor's hash, so of two competing blocks that both extend the
\* same tip at most one is appended
C13_ConcurrentAppendsStayLinked == Linked(Blocks)

\* C13's case: two self-consistent competing blocks that both extend the
\* genesis block, both appended, one after the other
C13_Witness ==
    /\ Len(Blocks) = 3
    /\ Blocks[1] = Genesis
    /\ Blocks[2].PrevHash = Genesis.Hash /\ Blocks[3].PrevHash = Genesis.Hash
    /\ Blocks[2] # Blocks[3]
    /\ SelfConsistent(Blocks)
    /\ \A c \in Conns : conns[c].pc = "idle"

\* C14: CastVote(candidateIndex, validator, approve) changes no state when
\* candidateIndex is out of range or validator has no registered stake; with
\* approve true, a valid index and a registered validator it adds stake*100
\* to that candidate's tally and changes no other candidate; with approve
\* false it changes nothing
C14_CastVoteAddsStake ==
    hcmLast.op = "CastVote" =>
        LET i == hcmLast.candidateIndex + 1
            counted == /\ i \in DOMAIN hcmLast.pre
                       /\ hcmLast.vote
                       /\ hcmLast.validator \in DOMAIN Stakeholders
        IN  /\ Len(CandidateBlocks) = Len(hcmLast.pre)
            /\ \A j \in DOMAIN CandidateBlocks :
                /\ CandidateBlocks[j].Block = hcmLast.pre[j].Block
                /\ CandidateBlocks[j].Work = hcmLast.pre[j].Work
                /\ CandidateBlocks[j].ValidVotes =
                        IF counted /\ j = i
                        THEN hcmLast.pre[j].ValidVotes + 100 * Stakeholders[hcmLast.validator]
                        ELSE hcmLast.pre[j].ValidVotes

\* C14's case: an approving vote of Validator1 for the second of two
\* candidates, which adds 3000 to its tally alone
C14_Witness ==
    /\ hcmLast.op = "CastVote" /\ hcmLast.vote
    /\ hcmLast.candidateIndex = 1 /\ hcmLast.validator = "Validator1"
    /\ Len(CandidateBlocks) = 2
    /\ CandidateBlocks[2].ValidVotes = hcmLast.pre[2].ValidVotes + 3000
    /\ CandidateBlocks[1] = hcmLast.pre[1]

\* the candidates, from 1, whose tally is at least totalStake * 0.67
Reaching(candidates, totalStake) ==
    {i \in DOMAIN candidates : 100 * candidates[i].ValidVotes >= 67 * totalStake}

\* the candidates, from 1, whose tally is at least totalStake * 0.67 truncated
\* to an integer
ReachingTruncated(candidates, totalStake) ==
    {i \in DOMAIN candidates : candidates[i].ValidVotes >= (67 * totalStake) \div 100}

\* C15: FinalizeBlock(totalStake) returns the block of the candidate with the
\* lowest proposal index whose tally is at least totalStake * 0.67, even when
\* a later candidate has a higher tally, and none when no candidate reaches
\* it; the call changes neither the candidate list nor any tally
C15_FirstAtTwoThirds ==
    hcmLast.op = "FinalizeBlock" =>
        LET reaching == Reaching(hcmLast.pre, hcmLast.totalStake)
        IN  /\ reaching = {} => hcmLast.ret = 0
            /\ reaching # {} =>
                    /\ hcmLast.ret \in reaching
                    /\ \A j \in reaching : hcmLast.ret <= j
            /\ CandidateBlocks = hcmLast.pre

\* what FinalizeBlock does where C15 fails: it returns the block of the
\* candidate with the lowest proposal index whose tally is at least
\* totalStake * 0.67 truncated to an integer, and none when no candidate
\* reaches that; it changes neither the candidate list nor any tally
C15_FirstAtTruncatedThreshold ==
    hcmLast.op = "FinalizeBlock" =>
        LET reaching == ReachingTruncated(hcmLast.pre, hcmLast.totalStake)
        IN  /\ reaching = {} => hcmLast.ret = 0
            /\ reaching # {} =>
                    /\ hcmLast.ret \in reaching
                    /\ \A j \in reaching : hcmLast.ret <= j
            /\ CandidateBlocks = hcmLast.pre

\* C15's case: FinalizeBlock(2986) returns the first candidate, whose tally
\* of 2000 is below 2986 * 0.67 = 2000.62
C15_Witness ==
    /\ hcmLast.op = "FinalizeBlock" /\ hcmLast.totalStake = 2986
    /\ hcmLast.ret = 1
    /\ CandidateBlocks[1].ValidVotes = 2000

\* C16: across any sequence of ProposeBlock, CastVote and FinalizeBlock calls
\* the candidate list is append-only: every candidate keeps its index and its
\* block and its tally never decreases; so once some candidate's tally has
\* met the threshold for a totalStake, FinalizeBlock(totalStake) never again
\* returns none
C16_CandidatesAppendOnly ==
    [][/\ Len(CandidateBlocks') >= Len(CandidateBlocks)
       /\ \A i \in DOMAIN CandidateBlocks :
            /\ CandidateBlocks'[i].Block = CandidateBlocks[i].Block
            /\ CandidateBlocks'[i].Work = CandidateBlocks[i].Work
            /\ CandidateBlocks'[i].ValidVotes >= CandidateBlocks[i].ValidVotes
       /\ \A totalStake \in TotalStakes :
            FinalizeBlock(CandidateBlocks, totalStake) # 0
                => FinalizeBlock(CandidateBlocks', totalStake) # 0]_vars

\* C16's case: the first of two candidates, with 8000 votes, returned by
\* FinalizeBlock(10000) at the end of a run in which a second candidate was
\* proposed
C16_Witness ==
    /\ hcmLast.op = "FinalizeBlock" /\ hcmLast.ret = 1
    /\ hcmLast.totalStake = 10000
    /\ Len(CandidateBlocks) = 2
    /\ hcmLast.ops = MaxHcmOps

----------------------------------------------------------------------------
(* Hybrid consensus called from concurrent handlers *)

\* every method begins with hcm.mu.Lock() and defers hcm.mu.Unlock(); between
\* them its reads and writes of the manager are steps of their own:
\* calls[t].pc is the step goroutine t takes next.  hcmLast.proposed[b] counts
\* the returned ProposeBlock(b) calls, hcmLast.cast[i] sums stake*100 over the
\* returned approving votes counted for candidate i

\* a mutex that never blocks
CanLock_Never(m) == TRUE

\* hcm.mu.Lock() returns only when the mutex is free
CanLock(m) == m = 0

HcmCalls ==
    {[op |-> "ProposeBlock", b |-> LocalBlock2],
     [op |-> "CastVote", candidateIndex |-> 0, validator |-> "Miner1", vote |-> TRUE],
     [op |-> "CastVote", candidateIndex |-> 0, validator |-> "Validator1", vote |-> TRUE],
     [op |-> "FinalizeBlock", totalStake |-> 100]}

InitHcmConc ==
    /\ Blocks = <<>>
    /\ files = <<>>
    /\ txPool = <<>>
    /\ last = NoOp
    /\ hist = NoHist
    /\ NoFn
    /\ Peers = <<>> /\ sent = <<>> /\ conns = <<>>
    /\ ledger = <<>>
    /\ Shards = <<>>
    /\ CandidateBlocks = <<>>
    /\ hcmLast = [op |-> "none", ops |-> 0,
                  proposed |-> [b \in {LocalBlock2} |-> 0],
                  cast |-> [i \in 1..MaxCalls |-> 0]]
    /\ mu = 0
    /\ calls = [t \in Conns |-> Idle]

ConcFrame == UNCHANGED <<chainVars, fnVars, netVars, ledger, Shards>>

\* a handler calls a method of the manager
HcmCall(t, call) ==
    /\ calls[t].pc = "idle"
    /\ hcmLast.ops < MaxCalls
    /\ calls' = [calls EXCEPT ![t] = [pc |-> "lock", call |-> call]]
    /\ hcmLast' = [hcmLast EXCEPT !.ops = @ + 1]
    /\ UNCHANGED <<CandidateBlocks, mu>>
    /\ ConcFrame

HcmLock(t) ==
    /\ calls[t].pc = "lock"
    /\ CanLock(mu)
    /\ mu' = t
    /\ calls' = [calls EXCEPT ![t].pc = "read"]
    /\ UNCHANGED <<CandidateBlocks, hcmLast>>
    /\ ConcFrame

\* the method reads the manager: the candidate list to append to, the tally
\* to add to, or the tallies to scan
HcmRead(t) ==
    /\ calls[t].pc = "read"
    /\ calls' = [calls EXCEPT ![t] =
        IF calls[t].call.op = "ProposeBlock"
        THEN [pc |-> "write", call |-> calls[t].call, list |-> CandidateBlocks]
        ELSE IF calls[t].call.op = "CastVote"
        THEN IF /\ calls[t].call.candidateIndex >= 0
                /\ calls[t].call.candidateIndex < Len(CandidateBlocks)
                /\ calls[t].call.vote
                /\ calls[t].call.validator \in DOMAIN Stakeholders
             THEN [pc |-> "write", call |-> calls[t].call,
                   tally |-> CandidateBlocks[calls[t].call.candidateIndex + 1].ValidVotes]
             ELSE [pc |-> "unlock", call |-> calls[t].call, counted |-> FALSE]
        ELSE [pc |-> "unlock", call |-> calls[t].call, counted |-> FALSE,
              ret |-> FinalizeBlock(CandidateBlocks, calls[t].call.totalStake)]]
    /\ UNCHANGED <<CandidateBlocks, hcmLast, mu>>
    /\ ConcFrame

\* the method writes what it computed from what it read
HcmWrite(t) ==
    /\ calls[t].pc = "write"
    /\ CandidateBlocks' =
        IF calls[t].call.op = "ProposeBlock"
        THEN ProposeBlock(calls[t].list, calls[t].call.b)
        ELSE [CandidateBlocks EXCEPT ![calls[t].call.candidateIndex + 1].ValidVotes =
                calls[t].tally + ScaleStake(Stakeholders[calls[t].call.validator])]
    /\ calls' = [calls EXCEPT ![t] = [pc |-> "unlock", call |-> calls[t].call,
                                      counted |-> TRUE]]
    /\ UNCHANGED <<hcmLast, mu>>
    /\ ConcFrame

\* the deferred hcm.mu.Unlock(), and the return
HcmUnlock(t) ==
    /\ calls[t].pc = "unlock"
    /\ mu' = 0
    /\ calls' = [calls EXCEPT ![t] = Idle]
    /\ hcmLast' =
        IF ~calls[t].counted THEN [hcmLast EXCEPT !.op = calls[t].call.op]
        ELSE IF calls[t].call.op = "ProposeBlock"
        THEN [hcmLast EXCEPT !.op = "ProposeBlock", !.proposed[calls[t].call.b] = @ + 1]
        ELSE [hcmLast EXCEPT !.op = "CastVote",
                             !.cast[calls[t].call.candidateIndex + 1] =
                                @ + 100 * Stakeholders[calls[t].call.validator]]
    /\ UNCHANGED CandidateBlocks
    /\ ConcFrame

NextHcmConc ==
    \E t \in Conns :
        \/ \E call \in HcmCalls : HcmCall(t, call)
        \/ HcmLock(t)
        \/ HcmRead(t)
        \/ HcmWrite(t)
        \/ HcmUnlock(t)

SpecHcmConc == InitHcmConc /\ [][NextHcmConc]_vars

\* C17: ProposeBlock, CastVote and FinalizeBlock are mutually exclusive: at
\* most one call is between Lock and Unlock, and under any interleaving no
\* proposal and no vote is lost: when the calls have returned the candidate
\* list contains every proposed block once per proposal and each tally is
\* the sum of stake*100 over the approving votes cast for that candidate
C17_NoProposalOrVoteLost ==
    /\ Cardinality({t \in Conns : calls[t].pc \in {"read", "write", "unlock"}}) <= 1
    /\ (\A t \in Conns : calls[t].pc = "idle") =>
        /\ \A b \in DOMAIN hcmLast.proposed :
            Cardinality({i \in DOMAIN CandidateBlocks : CandidateBlocks[i].Block = b})
                = hcmLast.proposed[b]
        /\ \A i \in DOMAIN CandidateBlocks :
            CandidateBlocks[i].ValidVotes = hcmLast.cast[i]

\* C17's case: two votes cast from two handlers for a proposed candidate,
\* the second handler waiting for the mutex while the first one voted
C17_Witness ==
    /\ \A t \in Conns : calls[t].pc = "idle"
    /\ hcmLast.ops = 3
    /\ Len(CandidateBlocks) = 1
    /\ CandidateBlocks[1].ValidVotes = 8000

----------------------------------------------------------------------------
(* Ledger *)

\* Ledger is map[string]float64.  A float is modelled by the whole number of
\* coins it stands for, and float64's 53-bit significand by MantBits bits:
\* the result of an addition or subtraction is the exact result rounded to
\* the nearest number of MantBits significant bits, a tie to the one whose
\* last bit is 0, as IEEE 754 rounds

Abs(x) == IF x < 0 THEN 0 - x ELSE x

RECURSIVE BitLen(_)
BitLen(n) == IF n = 0 THEN 0 ELSE 1 + BitLen(n \div 2)

RoundNat(n, ulp) ==
    LET q == n \div ulp
        rem == n % ulp
    IN  IF 2 * rem > ulp \/ (2 * rem = ulp /\ q % 2 = 1) THEN (q + 1) * ulp ELSE q * ulp

Round(x) ==
    IF BitLen(Abs(x)) <= MantBits THEN x
    ELSE IF x < 0 THEN 0 - RoundNat(0 - x, Pow(2, BitLen(0 - x) - MantBits))
    ELSE RoundNat(x, Pow(2, BitLen(x) - MantBits))

\* l[account], 0 for an account the map does not hold
Balance(l, account) == IF account \in DOMAIN l THEN l[account] ELSE 0

\* l[account] = v
Store(l, account, v) ==
    [a \in DOMAIN l \cup {account} |-> IF a = account THEN v ELSE l[a]]

ProcessTransaction(l, tx) ==
    IF Balance(l, tx.Sender) < tx.Amount
    THEN [err |-> "insufficient funds", ledger |-> l]
    ELSE LET debited == Store(l, tx.Sender, Round(Balance(l, tx.Sender) - tx.Amount))
         IN  [err |-> "nil",
              ledger |-> Store(debited, tx.Recipient,
                               Round(Balance(debited, tx.Recipient) + tx.Amount))]

ProcessCoinbaseTransaction(l, recipient, rwd) ==
    Store(l, recipient, Round(Balance(l, recipient) + rwd))

Accounts == {"Alice", "Bob", "Charlie", "Miner1"}
Amounts == {1, 10, 200}
Rewards == {12}

RECURSIVE SumOver(_, _)
SumOver(l, accounts) ==
    IF accounts = {} THEN 0
    ELSE LET a == CHOOSE a \in accounts : TRUE
         IN  l[a] + SumOver(l, accounts \ {a})

\* the sum of all balances
Total(l) == SumOver(l, DOMAIN l)

\* main's ledger
MainLedger == [a \in {"Alice", "Bob", "Charlie"} |->
                IF a = "Alice" THEN 100 ELSE IF a = "Bob" THEN 50 ELSE 25]

InitLedger ==
    /\ Blocks = <<>>
    /\ files = <<>>
    /\ txPool = <<>>
    /\ hist = NoHist
    /\ NoHcm
    /\ NoFn
    /\ Peers = <<>> /\ sent = <<>> /\ conns = <<>>
    /\ mu = 0 /\ calls = <<>>
    /\ ledger = MainLedger
    /\ Shards = <<>>
    /\ last = [op |-> "none", ops |-> 0, initial |-> Total(MainLedger), rewards |-> 0]

LedgerFrame == UNCHANGED <<Blocks, files, txPool, hist, hcmVars, fnVars, netVars, lockVars,
                          Shards>>

DoProcessTransaction(tx) ==
    /\ last.ops < MaxLedgerOps
    /\ ledger' = ProcessTransaction(ledger, tx).ledger
    /\ last' = [op |-> "ProcessTransaction", ops |-> last.ops + 1,
                initial |-> last.initial, rewards |-> last.rewards,
                pre |-> ledger, tx |-> tx, err |-> ProcessTransaction(ledger, tx).err]
    /\ LedgerFrame

DoProcessCoinbaseTransaction(recipient, rwd) ==
    /\ last.ops < MaxLedgerOps
    /\ ledger' = ProcessCoinbaseTransaction(ledger, recipient, rwd)
    /\ last' = [op |-> "ProcessCoinbaseTransaction", ops |-> last.ops + 1,
                initial |-> last.initial, rewards |-> last.rewards + rwd,
                pre |-> ledger, recipient |-> recipient]
    /\ LedgerFrame

NextLedger ==
    \/ \E sender \in Accounts, recipient \in Accounts, amount \in Amounts :
        DoProcessTransaction([Sender |-> sender, Recipient |-> recipient, Amount |-> amount])
    \/ \E recipient \in Accounts, rwd \in Rewards :
        DoProcessCoinbaseTransaction(recipient, rwd)

SpecLedger == InitLedger /\ [][NextLedger]_vars

\* C18: ProcessTransaction rejects a transaction whose amount exceeds the
\* sender's balance with an error and leaves every balance unchanged;
\* otherwise it debits the sender and credits the recipient by exactly the
\* amount and changes no other account
C18_TransferExact ==
    last.op = "ProcessTransaction" =>
        IF Balance(last.pre, last.tx.Sender) < last.tx.Amount
        THEN last.err = "insufficient funds" /\ ledger = last.pre
        ELSE /\ last.err = "nil"
             /\ \A a \in Accounts :
                    Balance(ledger, a) = Balance(last.pre, a)
                        - (IF a = last.tx.Sender THEN last.tx.Amount ELSE 0)
                        + (IF a = last.tx.Recipient THEN last.tx.Amount ELSE 0)

\* C18's case: Alice pays Bob one coin of her 100; she still has 100 and Bob
\* has 52
C18_Witness ==
    /\ last.op = "ProcessTransaction" /\ last.pre = MainLedger
    /\ last.tx = [Sender |-> "Alice", Recipient |-> "Bob", Amount |-> 1]
    /\ last.err = "nil"
    /\ ledger["Alice"] = 100 /\ ledger["Bob"] = 52

\* C19: after any sequence of ProcessTransaction and
\* ProcessCoinbaseTransaction calls the sum of all balances is the initial
\* sum plus the sum of the coinbase rewards applied; ProcessTransaction,
\* accepted or rejected, a transfer to oneself included, never changes the
\* total
C19_TotalConserved ==
    /\ Total(ledger) = last.initial + last.rewards
    /\ last.op = "ProcessTransaction" => Total(ledger) = Total(last.pre)

\* C19's case: an accepted transfer between two accounts after which the
\* total is greater than before it
C19_Witness ==
    /\ last.op = "ProcessTransaction" /\ last.err = "nil"
    /\ last.tx.Sender # last.tx.Recipient
    /\ last.rewards = 0
    /\ Total(ledger) > Total(last.pre)

----------------------------------------------------------------------------
(* Sub-blocks *)

\* the sub-block attached to the last block of the chain, whatever parentIndex
UpdateBlockWithSubBlockEx_OnTip(blocks, parentIndex, newText, newAudio, newVideo, subBlockCategory, now) ==
    IF parentIndex < 0 \/ parentIndex >= Len(blocks) THEN [returns |-> TRUE, Blocks |-> blocks]
    ELSE [returns |-> TRUE,
          Blocks |-> [blocks EXCEPT ![Len(blocks)].SubBlocks =
                        Append(@, Seal([RawBlock(blocks[parentIndex + 1].Index, blocks[parentIndex + 1].Hash, 1)
                                            EXCEPT !.TextData = newText, !.Timestamp = now,
                                                   !.Category = subBlockCategory]))]]

\* the sub-block takes Index, RelationshipType and Receivers from the parent
\* and the parent's hash as PrevHash, is mined at difficulty 1, has its hash
\* computed once more and is appended to the parent's SubBlocks.  returns is
\* FALSE when the mining has not returned
UpdateBlockWithSubBlockEx(blocks, parentIndex, newText, newAudio, newVideo, subBlockCategory, now) ==
    IF parentIndex < 0 \/ parentIndex >= Len(blocks) THEN [returns |-> TRUE, Blocks |-> blocks]
    ELSE LET parentBlock == blocks[parentIndex + 1]
             mined == MineBlock([Index |-> parentBlock.Index, Timestamp |-> now,
                                 PrevHash |-> parentBlock.Hash, Hash |-> <<>>,
                                 RelationshipType |-> parentBlock.RelationshipType,
                                 Receivers |-> parentBlock.Receivers,
                                 TextData |-> newText, AudioData |-> newAudio,
                                 VideoData |-> newVideo,
                                 Transactions |-> <<>>, SubBlocks |-> <<>>,
                                 Difficulty |-> 1, Nonce |-> 0,
                                 Category |-> subBlockCategory], 1)
         IN  [returns |-> mined.returns,
              Blocks |-> [blocks EXCEPT ![parentIndex + 1].SubBlocks =
                            Append(@, [mined.block EXCEPT !.Hash = CalculateHash(mined.block)])]]

\* the category of main's first sub-block
SubCategories == {<<"t", "e", "x", "t">>}
newTextData == <<"n">>

InitSub ==
    /\ Blocks \in {MinedChain(n) : n \in 0..MaxAdds}
    /\ files = <<>>
    /\ txPool = <<>>
    /\ last = [op |-> "none", ops |-> 0]
    /\ hist = NoHist
    /\ NoHcm
    /\ NoFn
    /\ NoRest

DoUpdateBlockWithSubBlockEx(parentIndex, subBlockCategory, now, out) ==
    /\ last.ops < MaxSubs
    /\ out.returns
    /\ Blocks' = out.Blocks
    /\ last' = [op |-> "UpdateBlockWithSubBlockEx", ops |-> last.ops + 1,
                pre |-> Blocks, parentIndex |-> parentIndex]
    /\ UNCHANGED <<files, txPool, hist, hcmVars, fnVars, restVars>>

NextSub ==
    \E parentIndex \in (0 - 1)..Len(Blocks), subBlockCategory \in SubCategories, now \in Times :
        DoUpdateBlockWithSubBlockEx(parentIndex, subBlockCategory, now,
            UpdateBlockWithSubBlockEx(Blocks, parentIndex, newTextData, <<>>, <<>>,
                                      subBlockCategory, now))

SpecSub == InitSub /\ [][NextSub]_vars

\* b without its sub-blocks
Own(b) == [b EXCEPT !.SubBlocks = <<>>]

\* C20: UpdateBlockWithSubBlockEx with a valid parentIndex changes nothing but
\* the sub-block list of the block at that position, which gets one more
\* sub-block at its end: the chain length, every block's position, hash and
\* other fields, the parent's included, and every other block's sub-block
\* list are as before, and the parent's stored hash is still its recomputed
\* hash; with a parentIndex out of range nothing changes
C20_OnlyParentSubBlocksGrow ==
    last.op = "UpdateBlockWithSubBlockEx" =>
        IF last.parentIndex < 0 \/ last.parentIndex >= Len(last.pre)
        THEN Blocks = last.pre
        ELSE /\ Len(Blocks) = Len(last.pre)
             /\ \A i \in DOMAIN Blocks :
                    /\ Own(Blocks[i]) = Own(last.pre[i])
                    /\ i # last.parentIndex + 1 => Blocks[i].SubBlocks = last.pre[i].SubBlocks
             /\ Blocks[last.parentIndex + 1].Hash = CalculateHash(Blocks[last.parentIndex + 1])
             /\ Len(Blocks[last.parentIndex + 1].SubBlocks)
                    = Len(last.pre[last.parentIndex + 1].SubBlocks) + 1
             /\ SubSeq(Blocks[last.parentIndex + 1].SubBlocks, 1,
                       Len(last.pre[last.parentIndex + 1].SubBlocks))
                    = last.pre[last.parentIndex + 1].SubBlocks

\* C20's case: a second sub-block appended to the first of three blocks
C20_Witness ==
    /\ last.op = "UpdateBlockWithSubBlockEx" /\ last.parentIndex = 0
    /\ Len(Blocks) = 3
    /\ Len(Blocks[1].SubBlocks) = 2
    /\ Blocks[1].SubBlocks[2].PrevHash = Blocks[1].Hash
    /\ Blocks[1].SubBlocks[2].Hash = CalculateHash(Blocks[1].SubBlocks[2])
    /\ Blocks[2].SubBlocks = <<>> /\ Blocks[3].SubBlocks = <<>>

----------------------------------------------------------------------------
(* Difficulty adjustment as a function *)

\* time.Second, counted in milliseconds (a time.Duration counts nanoseconds)
Second == 1000

\* a decrease that does not stop at difficulty 1
AdjustDifficulty_Unfloored(chain, targetTimePerBlock, adjustmentInterval) ==
    IF Len(chain) < adjustmentInterval THEN chain[Len(chain)].Difficulty
    ELSE IF (chain[Len(chain)].Timestamp
                - chain[Len(chain) - adjustmentInterval + 1].Timestamp) * Second
            < (targetTimePerBlock * adjustmentInterval) \div 2
        THEN chain[Len(chain)].Difficulty + 1
    ELSE IF (chain[Len(chain)].Timestamp
                - chain[Len(chain) - adjustmentInterval + 1].Timestamp) * Second
            > (targetTimePerBlock * adjustmentInterval) * 2
        THEN chain[Len(chain)].Difficulty - 1
    ELSE chain[Len(chain)].Difficulty

\* chain[k] of the code is chain[k + 1] here
AdjustDifficulty(chain, targetTimePerBlock, adjustmentInterval) ==
    LET n == Len(chain)
        start == chain[n - adjustmentInterval + 1]
        end == chain[n]
        actualTime == (end.Timestamp - start.Timestamp) * Second
        expectedTime == targetTimePerBlock * adjustmentInterval
        currentDifficulty == chain[n].Difficulty
    IN  IF n < adjustmentInterval THEN chain[n].Difficulty
        ELSE IF actualTime < expectedTime \div 2 THEN currentDifficulty + 1
        ELSE IF actualTime > expectedTime * 2 /\ currentDifficulty > 1
            THEN currentDifficulty - 1
        ELSE currentDifficulty

\* the timestamps and difficulties of the blocks AdjustDifficulty reads
Stamps == {0, 1, 5, 50}
StampedBlocks ==
    {[RawBlock(0, <<>>, d) EXCEPT !.Timestamp = t] : t \in Stamps, d \in {1, 2}}

\* the sequences over S of length n
RECURSIVE SeqsOfLen(_, _)
SeqsOfLen(S, n) ==
    IF n = 0 THEN {<<>>}
    ELSE {Append(q, x) : q \in SeqsOfLen(S, n - 1), x \in S}

\* targets of one second and of main's ten
Targets == {1 * Second, 10 * Second}

\* the calls of AdjustDifficulty on the chains of 1..longest blocks
AdjustInputs(longest) ==
    {[op |-> "AdjustDifficulty", chain |-> c, targetTimePerBlock |-> t,
      adjustmentInterval |-> w] :
        c \in UNION {SeqsOfLen(StampedBlocks, n) : n \in 1..longest},
        t \in Targets, w \in 1..MaxWindow}

InitAdjust ==
    /\ Blocks = <<>>
    /\ files = <<>>
    /\ txPool = <<>>
    /\ last = NoOp
    /\ hist = NoHist
    /\ NoRest
    /\ NoHcm
    /\ fnIn \in AdjustInputs(MaxWindow)
    /\ fnOut = NoOp

DoAdjustDifficulty ==
    /\ fnIn.op = "AdjustDifficulty"
    /\ fnOut = NoOp
    /\ fnOut' = [op |-> "AdjustDifficulty",
                 ret |-> AdjustDifficulty(fnIn.chain, fnIn.targetTimePerBlock,
                                          fnIn.adjustmentInterval)]
    /\ UNCHANGED <<chainVars, hcmVars, fnIn, restVars>>

SpecAdjust == InitAdjust /\ [][DoAdjustDifficulty]_vars

\* seconds between the block window blocks from the end of the chain and the
\* latest block
Elapsed(chain, window) ==
    chain[Len(chain)].Timestamp - chain[Len(chain) - window + 1].Timestamp

\* C21: AdjustDifficulty(chain, target, window) returns the last block's
\* difficulty when the chain has fewer than window blocks; otherwise, with
\* elapsed the time between the block window positions back and the latest
\* block and expected = target * window, it returns current + 1 if
\* elapsed < expected / 2, current - 1 if elapsed > 2 * expected and
\* current > 1, and current otherwise.  Stated in seconds, elapsed < expected / 2
\* as 2 * elapsed < expected
C21_AdjustByElapsed ==
    fnOut.op = "AdjustDifficulty" =>
        \E current \in {fnIn.chain[Len(fnIn.chain)].Difficulty},
           expected \in {(fnIn.targetTimePerBlock \div Second) * fnIn.adjustmentInterval} :
            IF Len(fnIn.chain) < fnIn.adjustmentInterval THEN fnOut.ret = current
            ELSE IF 2 * Elapsed(fnIn.chain, fnIn.adjustmentInterval) < expected
                THEN fnOut.ret = current + 1
            ELSE IF Elapsed(fnIn.chain, fnIn.adjustmentInterval) > 2 * expected /\ current > 1
                THEN fnOut.ret = current - 1
            ELSE fnOut.ret = current

\* C21's case: three blocks of difficulty 2 of which the last two are 49
\* seconds apart, against 2 * 20 seconds expected: the difficulty goes down
\* to 1
C21_Witness ==
    /\ fnOut.op = "AdjustDifficulty"
    /\ Len(fnIn.chain) = 3 /\ fnIn.adjustmentInterval = 2
    /\ fnIn.targetTimePerBlock = 10 * Second
    /\ fnIn.chain[1].Timestamp = 0 /\ fnIn.chain[2].Timestamp = 1
    /\ fnIn.chain[3].Timestamp = 50
    /\ fnIn.chain[3].Difficulty = 2
    /\ fnOut.ret = 1

----------------------------------------------------------------------------
(* The node main starts: auto-miner, difficulty ticker and NEW_BLOCK handler *)

\* main's difficulty := 3, scaled to a digest of HashLen characters
difficulty == 1

\* the arguments the auto-miner passes to CreateBlock
relMany == <<"m">>
receiversABC == <<<<"r">>, <<"s">>, <<"t">>>>

\* main's ledger, in quarter coins, after the coinbase of the two blocks main
\* mines at startup
NodeLedger ==
    [a \in {<<"A">>, <<"B">>, <<"C">>, minerAddress} |->
        IF a = <<"A">> THEN 400 ELSE IF a = <<"B">> THEN 200
        ELSE IF a = <<"C">> THEN 100 ELSE Round(Round(0 + reward) + reward)]

\* transactions a client hands to the pool
PoolTransactions == {NewTransaction(<<"A">>, <<"B">>, 42, 1, now) : now \in Times}

\* main has mined and added the genesis block and block2, cleared the pool
\* and started the node with the peers of its command line
InitNode ==
    /\ Blocks = MinedChain(2)
    /\ files = <<>>
    /\ txPool = <<>>
    /\ last = NoOp
    /\ hist = NoHist
    /\ NoHcm
    /\ NoFn
    /\ Peers \in PeerLists
    /\ sent = <<>> /\ conns = <<>>
    /\ mu = 0 /\ calls = <<>>
    /\ ledger = NodeLedger
    /\ Shards = <<>>

\* txPool.AddTransaction
DoAddTransaction(tx) ==
    /\ Len(txPool) < MaxPool
    /\ txPool' = Append(txPool, tx)
    /\ last' = [op |-> "AddTransaction", pre |-> Blocks]
    /\ UNCHANGED <<Blocks, files, hist, hcmVars, fnVars, restVars>>

\* one tick of the auto-miner with transactions pending: CreateBlock on the
\* tip with main's difficulty, AddBlock, the coinbase on the ledger and
\* txPool.Clear(); nothing is sent to any peer
AutoMine(now, later) ==
    /\ Len(txPool) > 0
    /\ hist.adds < MaxAdds
    /\ \E c \in {CreateBlock(Len(Blocks), TipHash(Blocks), relMany, receiversABC,
                             textData, audioData, videoData, txPool, difficulty,
                             minerAddress, reward, now)} :
        /\ c.mined.returns
        /\ \E a \in {AddBlock(Blocks, files, c.mined.block, "ok", later)} :
            /\ Blocks' = a.Blocks
            /\ files' = a.files
    /\ ledger' = ProcessCoinbaseTransaction(ledger, minerAddress, reward)
    /\ txPool' = <<>>
    /\ sent' = <<>>
    /\ last' = [op |-> "AutoMine", pre |-> Blocks]
    /\ hist' = [hist EXCEPT !.adds = @ + 1]
    /\ UNCHANGED <<hcmVars, fnVars, Peers, conns, lockVars, Shards>>

\* one tick of the difficulty ticker: newDifficulty is computed and printed
DifficultyTick ==
    /\ Len(Blocks) > 0
    /\ fnOut' = [op |-> "AdjustDifficulty", ret |-> AdjustDifficulty(Blocks, 10 * Second, 2)]
    /\ last' = [op |-> "DifficultyTick", pre |-> Blocks]
    /\ UNCHANGED <<Blocks, files, txPool, hist, hcmVars, fnIn, restVars>>

\* the NEW_BLOCK messages the node's peers send it: a block on its tip, and
\* one that is not
NodeMessages(blocks) ==
    {[Command |-> "NEW_BLOCK", parses |-> TRUE, block |-> b] :
        b \in {NextBlock(blocks, textData), Orphan}}

NextNode ==
    \/ \E tx \in PoolTransactions : DoAddTransaction(tx)
    \/ \E now \in Times : AutoMine(now, now)
    \/ DifficultyTick
    \/ \E msg \in NodeMessages(Blocks), up \in {{}, PeerNames} :
        DoHandleNewBlock(msg, up)

SpecNode == InitNode /\ [][NextNode]_vars

\* C22: the difficulty the periodic difficulty-adjustment task computed most
\* recently is the mining target of the next auto-mined block: the block is
\* created and mined with it
C22_MinedWithAdjustedDifficulty ==
    (last.op = "AutoMine" /\ fnOut.op = "AdjustDifficulty") =>
        /\ Blocks[Len(Blocks)].Difficulty = fnOut.ret
        /\ LeadingZeros(Blocks[Len(Blocks)].Hash) >= fnOut.ret

\* C22's case: the ticker computed 2 and the auto-miner then mined a block
\* of difficulty 1
C22_Witness ==
    /\ last.op = "AutoMine" /\ fnOut.op = "AdjustDifficulty"
    /\ fnOut.ret = 2
    /\ Len(Blocks) = Len(last.pre) + 1
    /\ Blocks[Len(Blocks)].Difficulty = 1

\* C23: every block the node appends to its chain, mined by the auto-miner
\* or accepted from a NEW_BLOCK message, is followed by a broadcast of the
\* new chain to every known peer: the step that appends it dispatches the
\* chain to each of them
C23_EveryAppendBroadcast ==
    (last.op \in {"AutoMine", "NEW_BLOCK"} /\ Len(Blocks) > Len(last.pre)) =>
        /\ Len(sent) = Len(Peers)
        /\ \A i \in DOMAIN Peers : sent[i].to = Peers[i] /\ sent[i].chain = Blocks

\* C23's case: an auto-mined block on the chain of a node with two peers,
\* and nothing sent
C23_Witness ==
    /\ last.op = "AutoMine"
    /\ Len(Blocks) = Len(last.pre) + 1
    /\ Len(Peers) = 2
    /\ sent = <<>>

----------------------------------------------------------------------------
(* Inbound connections: handleConnection and handleMessage *)

\* n.Address
Address == <<"p", "0">>

contains(slice, item) == \E i \in DOMAIN slice : slice[i] = item

\* handlePeerList appending the node's own address like any other
RECURSIVE handlePeerList_WithSelf(_, _)
handlePeerList_WithSelf(peers, msg) ==
    IF ~msg.parses \/ msg.peers = <<>> THEN peers
    ELSE handlePeerList_WithSelf(
            IF ~contains(peers, Head(msg.peers)) THEN Append(peers, Head(msg.peers))
            ELSE peers,
            [msg EXCEPT !.peers = Tail(@)])

\* handlePeerList: the loop over receivedPeers, each test made against the
\* list as the appends before it have left it
RECURSIVE handlePeerList(_, _)
handlePeerList(peers, msg) ==
    IF ~msg.parses \/ msg.peers = <<>> THEN peers
    ELSE handlePeerList(
            IF Head(msg.peers) # Address /\ ~contains(peers, Head(msg.peers))
            THEN Append(peers, Head(msg.peers))
            ELSE peers,
            [msg EXCEPT !.peers = Tail(@)])

\* replies that answer a HEARTBEAT_ACK with another
Reply_AckEcho(blocks, peers, command) ==
    IF command = "GET_CHAIN" THEN <<[Command |-> "GET_CHAIN_RESPONSE", chain |-> blocks]>>
    ELSE IF command \in {"HEARTBEAT", "HEARTBEAT_ACK"} THEN <<[Command |-> "HEARTBEAT_ACK"]>>
    ELSE IF command = "GET_PEERS" THEN <<[Command |-> "PEER_LIST", peers |-> peers]>>
    ELSE <<>>

\* what handleMessage writes to the connection the message came on:
\* sendChain, sendHeartbeatAck or handleGetPeers
Reply(blocks, peers, command) ==
    IF command = "GET_CHAIN" THEN <<[Command |-> "GET_CHAIN_RESPONSE", chain |-> blocks]>>
    ELSE IF command = "HEARTBEAT" THEN <<[Command |-> "HEARTBEAT_ACK"]>>
    ELSE IF command = "GET_PEERS" THEN <<[Command |-> "PEER_LIST", peers |-> peers]>>
    ELSE <<>>

\* handleMessage: the chain, the peer list, the lines written back and the
\* messages dispatched to peers
handleMessage(blocks, peers, msg, up) ==
    [Blocks |-> IF msg.Command \in {"GET_CHAIN_RESPONSE", "CHAIN_UPDATE"}
                    THEN handleChainUpdate(blocks, msg)
                ELSE IF msg.Command = "NEW_BLOCK"
                    THEN handleNewBlock(blocks, peers, msg, up).Blocks
                ELSE blocks,
     Peers |-> IF msg.Command = "PEER_LIST" THEN handlePeerList(peers, msg) ELSE peers,
     reply |-> Reply(blocks, peers, msg.Command),
     sent |-> IF msg.Command = "NEW_BLOCK"
                THEN handleNewBlock(blocks, peers, msg, up).sent ELSE <<>>]

\* a line json.Unmarshal refuses as a Message
Garbage == [json |-> FALSE]
Line(msg) == [json |-> TRUE, msg |-> msg]

QuietCommands == {"GET_CHAIN", "GET_PEERS", "HEARTBEAT", "HEARTBEAT_ACK", "FOO"}

PeerListMessages ==
    {Unparsable("PEER_LIST")} \cup
    {[Command |-> "PEER_LIST", parses |-> TRUE, peers |-> l] :
        l \in {<<>>,
               << <<"p", "3">>, Address, <<"p", "1">>, <<"p", "3">> >>,
               << <<"p", "2">>, <<"p", "4">> >>}}

\* the lines a peer may send on a connection to a node whose chain is blocks
Lines(blocks) ==
    {Garbage}
    \cup {Line([Command |-> c, parses |-> TRUE]) : c \in QuietCommands}
    \cup {Line(m) : m \in PeerListMessages}
    \cup {Line([Command |-> "NEW_BLOCK", parses |-> TRUE,
                block |-> NextBlock(blocks, textData)]),
          Line([Command |-> "CHAIN_UPDATE", parses |-> TRUE,
                chain |-> <<Genesis, IncomingBlock2>>])}

InitConn ==
    /\ Blocks = <<Genesis>>
    /\ files = <<>>
    /\ txPool = <<>>
    /\ last = NoOp
    /\ hist = NoHist
    /\ NoHcm
    /\ NoFn
    /\ Peers \in PeerLists
    /\ sent = <<>>
    /\ conns = [c \in Conns |-> [pc |-> "none", written |-> <<>>, logged |-> 0]]
    /\ mu = 0 /\ calls = <<>>
    /\ ledger = <<>>
    /\ Shards = <<>>

ConnFrame == UNCHANGED <<files, txPool, hcmVars, fnVars, lockVars, ledger, Shards>>

\* Start accepts a connection and runs handleConnection on it; connections
\* are numbered in the order Accept returns them
Accept(c) ==
    /\ conns[c].pc = "none"
    /\ \A d \in Conns : d < c => conns[d].pc # "none"
    /\ conns' = [conns EXCEPT ![c].pc = "open"]
    /\ last' = [op |-> "Accept", conn |-> c]
    /\ UNCHANGED <<Blocks, Peers, sent, hist>>
    /\ ConnFrame

\* one round of handleConnection's loop on a line read: a line that is not a
\* Message has its error printed (logged counts them) and the loop goes on;
\* a Message goes to handleMessage
ReadLine(c, line, up) ==
    /\ conns[c].pc = "open"
    /\ hist.adds < MaxLines
    /\ \E r \in {IF line.json THEN handleMessage(Blocks, Peers, line.msg, up)
                 ELSE [Blocks |-> Blocks, Peers |-> Peers, reply |-> <<>>, sent |-> <<>>]} :
        /\ Blocks' = r.Blocks
        /\ Peers' = r.Peers
        /\ sent' = r.sent
        /\ conns' = [conns EXCEPT ![c].written = @ \o r.reply,
                                   ![c].logged = IF line.json THEN @ ELSE @ + 1]
    /\ last' = [op |-> "ReadLine", conn |-> c, line |-> line, pre |-> Blocks,
                prePeers |-> Peers, preConns |-> conns]
    /\ hist' = [hist EXCEPT !.adds = @ + 1]
    /\ ConnFrame

\* ReadString fails (the peer closed, the deadline passed): handleConnection
\* returns and the deferred Close runs
ReadError(c) ==
    /\ conns[c].pc = "open"
    /\ conns' = [conns EXCEPT ![c].pc = "closed"]
    /\ last' = [op |-> "ReadError", conn |-> c]
    /\ UNCHANGED <<Blocks, Peers, sent, hist>>
    /\ ConnFrame

NextConn ==
    \E c \in Conns :
        \/ Accept(c)
        \/ /\ conns[c].pc = "open" /\ hist.adds < MaxLines
           /\ \E line \in Lines(Blocks) : ReadLine(c, line, PeerNames)
        \/ ReadError(c)

SpecConn == InitConn /\ [][NextConn]_vars

Range(q) == {q[i] : i \in DOMAIN q}
NoDuplicates(q) == \A i, j \in DOMAIN q : q[i] = q[j] => i = j
FirstAt(q, x) == CHOOSE i \in DOMAIN q : q[i] = x /\ \A j \in 1..(i - 1) : q[j] # x

\* C25: handling a PEER_LIST message appends to the peer list exactly the
\* received addresses that are not the node's own and not already present,
\* each once and in received order; the peers there are kept in place; so a
\* peer list without duplicates and without the node's own address stays so
\* under any sequence of PEER_LIST messages handled one at a time
C25_PeerListMerge ==
    /\ NoDuplicates(Peers) /\ ~contains(Peers, Address)
    /\ (last.op = "ReadLine" /\ last.line.json /\ last.line.msg.Command = "PEER_LIST") =>
        IF ~last.line.msg.parses THEN Peers = last.prePeers
        ELSE \E added \in {SubSeq(Peers, Len(last.prePeers) + 1, Len(Peers))} :
            /\ Len(Peers) >= Len(last.prePeers)
            /\ SubSeq(Peers, 1, Len(last.prePeers)) = last.prePeers
            /\ Range(added) = Range(last.line.msg.peers) \ (Range(last.prePeers) \cup {Address})
            /\ NoDuplicates(added)
            /\ \A i, j \in DOMAIN added :
                i < j => FirstAt(last.line.msg.peers, added[i])
                            < FirstAt(last.line.msg.peers, added[j])

\* C25's case: a list naming a new peer twice, the node itself and a known
\* peer, handled after another list: the new peer is appended once
C25_Witness ==
    /\ last.op = "ReadLine" /\ last.line.json /\ last.line.msg.Command = "PEER_LIST"
    /\ last.line.msg.parses
    /\ last.line.msg.peers = << <<"p", "3">>, Address, <<"p", "1">>, <<"p", "3">> >>
    /\ last.prePeers = << <<"p", "1">>, <<"p", "2">>, <<"p", "4">> >>
    /\ Peers = << <<"p", "1">>, <<"p", "2">>, <<"p", "4">>, <<"p", "3">> >>

\* C26: when an inbound connection delivers a line that is not a well-formed
\* message the node logs the failure and tears down that connection, and the
\* chain, the peer list and every other connection are unaffected
C26_MalformedLineClosesConnection ==
    (last.op = "ReadLine" /\ ~last.line.json) =>
        /\ conns[last.conn].logged = last.preConns[last.conn].logged + 1
        /\ conns[last.conn].pc = "closed"
        /\ Blocks = last.pre /\ Peers = last.prePeers
        /\ \A c \in Conns : c # last.conn => conns[c] = last.preConns[c]

\* C26's case: after a malformed line the connection is open and delivers a
\* message that is handled
C26_Witness ==
    /\ last.op = "ReadLine" /\ last.line.json
    /\ last.preConns[last.conn].logged = 1
    /\ conns[last.conn].pc = "open"
    /\ Len(conns[last.conn].written) = 1

\* C27: handling GET_CHAIN, GET_PEERS, HEARTBEAT, HEARTBEAT_ACK or an
\* unrecognized command leaves the chain and the peer list unchanged;
\* GET_CHAIN, GET_PEERS and HEARTBEAT each send exactly one reply on the same
\* connection (GET_CHAIN_RESPONSE with the current chain, PEER_LIST with the
\* current peers, HEARTBEAT_ACK), HEARTBEAT_ACK and unrecognized commands
\* send none
C27_QuietCommandsOnlyReply ==
    (last.op = "ReadLine" /\ last.line.json /\ last.line.msg.Command \in QuietCommands) =>
        /\ Blocks = last.pre /\ Peers = last.prePeers
        /\ sent = <<>>
        /\ \A c \in Conns : c # last.conn => conns[c] = last.preConns[c]
        /\ conns[last.conn].pc = last.preConns[last.conn].pc
        /\ conns[last.conn].written = last.preConns[last.conn].written \o
            (IF last.line.msg.Command = "GET_CHAIN"
                THEN <<[Command |-> "GET_CHAIN_RESPONSE", chain |-> Blocks]>>
             ELSE IF last.line.msg.Command = "GET_PEERS"
                THEN <<[Command |-> "PEER_LIST", peers |-> Peers]>>
             ELSE IF last.line.msg.Command = "HEARTBEAT"
                THEN <<[Command |-> "HEARTBEAT_ACK"]>>
             ELSE <<>>)

\* C27's case: a GET_CHAIN answered with the two-block chain the node took
\* from the line before
C27_Witness ==
    /\ last.op = "ReadLine" /\ last.line.json /\ last.line.msg.Command = "GET_CHAIN"
    /\ Len(Blocks) = 2
    /\ conns[last.conn].written = <<[Command |-> "GET_CHAIN_RESPONSE", chain |-> Blocks]>>

----------------------------------------------------------------------------
(* Outbound connections: the initial sweep and the periodic discovery *)

AllPeers == {<<"p", "1">>, <<"p", "2">>, <<"p", "3">>}

\* the peer list each peer holds, which its handleGetPeers answers with
Known(p) ==
    IF p = <<"p", "1">> THEN << <<"p", "2">>, <<"p", "3">> >>
    ELSE IF p = <<"p", "2">> THEN << Address, <<"p", "1">> >>
    ELSE << <<"p", "1">> >>

\* a sweep connection that hands its response to handleMessage
ProcessResponse_AnyCommand(blocks, peers, line) ==
    IF ~line.json THEN [Blocks |-> blocks, Peers |-> peers]
    ELSE [Blocks |-> handleMessage(blocks, peers, line.msg, {}).Blocks,
          Peers |-> handleMessage(blocks, peers, line.msg, {}).Peers]

\* what a sweep connection does with the line it reads: a line that is not a
\* Message is dropped, a GET_CHAIN_RESPONSE goes to handleChainUpdate, a
\* PEER_LIST to handlePeerList, any other command is only printed
ProcessResponse(blocks, peers, line) ==
    IF ~line.json THEN [Blocks |-> blocks, Peers |-> peers]
    ELSE IF line.msg.Command = "GET_CHAIN_RESPONSE"
        THEN [Blocks |-> handleChainUpdate(blocks, line.msg), Peers |-> peers]
    ELSE IF line.msg.Command = "PEER_LIST"
        THEN [Blocks |-> blocks, Peers |-> handlePeerList(peers, line.msg)]
    ELSE [Blocks |-> blocks, Peers |-> peers]

\* the first line a peer may write back on a sweep connection
Responses(p) ==
    {Garbage,
     Line(Unparsable("GET_CHAIN_RESPONSE")),
     Line([Command |-> "GET_CHAIN_RESPONSE", parses |-> TRUE,
           chain |-> <<Genesis, IncomingBlock2>>]),
     Line([Command |-> "PEER_LIST", parses |-> TRUE, peers |-> Known(p)]),
     Line([Command |-> "CHAIN_UPDATE", parses |-> TRUE,
           chain |-> <<Genesis, IncomingBlock2>>]),
     Line([Command |-> "HEARTBEAT_ACK", parses |-> TRUE])}

GetChain == [Command |-> "GET_CHAIN"]
GetPeers == [Command |-> "GET_PEERS"]

\* Start has launched connectToPeers: one goroutine per peer of the list the
\* node was started with
InitDial ==
    /\ Blocks = <<Genesis>>
    /\ files = <<>>
    /\ txPool = <<>>
    /\ last = NoOp
    /\ hist = NoHist
    /\ NoHcm
    /\ NoFn
    /\ Peers \in PeerLists \ {<<>>}
    /\ sent = <<>>
    /\ conns = [p \in Range(Peers) |->
                    [pc |-> "start", dials |-> 0, written |-> <<>>, lines |-> <<>>]]
    /\ mu = 0 /\ calls = <<>>
    /\ ledger = <<>>
    /\ Shards = <<>>

DialFrame == UNCHANGED <<files, txPool, hist, hcmVars, fnVars, lockVars, ledger, Shards>>

\* a sweep goroutine dials its peer; on failure it prints and returns, on
\* success it sends GET_CHAIN and GET_PEERS and goes on to read
Dial(p, ok) ==
    /\ p \in DOMAIN conns
    /\ conns[p].pc = "start"
    /\ conns' = [conns EXCEPT
                    ![p].pc = IF ok THEN "reading" ELSE "abandoned",
                    ![p].dials = @ + 1,
                    ![p].written = IF ok THEN <<GetChain, GetPeers>> ELSE <<>>]
    /\ last' = [op |-> "Dial", peer |-> p, ok |-> ok, pre |-> Blocks, prePeers |-> Peers]
    /\ sent' = <<>>
    /\ UNCHANGED <<Blocks, Peers>>
    /\ DialFrame

\* the goroutine reads one line, processes it and returns; the deferred
\* Close runs
Response(p, line) ==
    /\ p \in DOMAIN conns
    /\ conns[p].pc = "reading"
    /\ \E r \in {ProcessResponse(Blocks, Peers, line)} :
        /\ Blocks' = r.Blocks
        /\ Peers' = r.Peers
    /\ conns' = [conns EXCEPT ![p].pc = "closed", ![p].lines = Append(@, line)]
    /\ last' = [op |-> "Response", peer |-> p, line |-> line, pre |-> Blocks,
                prePeers |-> Peers]
    /\ sent' = <<>>
    /\ DialFrame

\* ReadString fails: the goroutine prints and returns; the deferred Close runs
ReadFails(p) ==
    /\ p \in DOMAIN conns
    /\ conns[p].pc = "reading"
    /\ conns' = [conns EXCEPT ![p].pc = "closed"]
    /\ last' = [op |-> "ReadFails", peer |-> p, pre |-> Blocks, prePeers |-> Peers]
    /\ sent' = <<>>
    /\ UNCHANGED <<Blocks, Peers>>
    /\ DialFrame

\* one goroutine of a broadcastGetPeers round: dial a peer of the current
\* list; on failure return; otherwise send GET_PEERS and close
Discover(p, ok) ==
    /\ contains(Peers, p)
    /\ sent' = IF ok THEN <<[to |-> p, msg |-> GetPeers]>> ELSE <<>>
    /\ last' = [op |-> "Discover", peer |-> p, ok |-> ok, pre |-> Blocks,
                prePeers |-> Peers]
    /\ UNCHANGED <<Blocks, Peers, conns>>
    /\ DialFrame

NextDial ==
    \E p \in AllPeers :
        \/ \E ok \in BOOLEAN : Dial(p, ok)
        \/ \E line \in Responses(p) : Response(p, line)
        \/ ReadFails(p)
        \/ \E ok \in BOOLEAN : Discover(p, ok)

SpecDial == InitDial /\ [][NextDial]_vars

\* every goroutine started runs on: a sweep goroutine dials, a response that
\* has arrived is read, and the discovery rounds keep coming
SpecDialFair ==
    /\ SpecDial
    /\ \A p \in AllPeers :
        /\ WF_vars(\E ok \in BOOLEAN : Dial(p, ok))
        /\ WF_vars(\E line \in Responses(p) : Response(p, line))
        /\ WF_vars(Discover(p, TRUE))

\* the addresses of a peer's list that the node has to learn
NewFrom(p) == Range(Known(p)) \ {Address}

\* C24: after the discovery task has sent GET_PEERS to a reachable peer, every
\* address of that peer's list other than the node's own is eventually in the
\* node's peer list
C24_DiscoveryProgress ==
    \A p \in AllPeers :
        (last.op = "Discover" /\ last.peer = p /\ last.ok)
            ~> (NewFrom(p) \subseteq Range(Peers))

\* C24's case: GET_PEERS has gone to a reachable peer whose list holds an
\* address the node does not know
C24_Witness ==
    /\ last.op = "Discover" /\ last.ok
    /\ sent = <<[to |-> last.peer, msg |-> GetPeers]>>
    /\ ~(NewFrom(last.peer) \subseteq Range(Peers))

\* C28: a sweep connection is dialled once; a failed dial leaves the chain,
\* the peer list and the connection untouched for good; a successful one
\* writes GET_CHAIN then GET_PEERS and nothing else, reads at most one line
\* and is closed once that line is processed: a GET_CHAIN_RESPONSE by the
\* chain update handling, a PEER_LIST by the peer merge, any other line
\* changing nothing
C28_SweepConnection ==
    /\ \A p \in DOMAIN conns :
        /\ conns[p].dials <= 1
        /\ conns[p].pc \in {"start", "abandoned"} =>
            conns[p].written = <<>> /\ conns[p].lines = <<>>
        /\ conns[p].pc \in {"reading", "closed"} =>
            conns[p].written = <<GetChain, GetPeers>>
        /\ conns[p].pc = "reading" => conns[p].lines = <<>>
        /\ Len(conns[p].lines) <= 1
    /\ (last.op = "Dial" /\ ~last.ok) =>
        /\ conns[last.peer].pc = "abandoned"
        /\ Blocks = last.pre /\ Peers = last.prePeers /\ sent = <<>>
    /\ last.op = "Response" =>
        /\ conns[last.peer].pc = "closed"
        /\ conns[last.peer].lines = <<last.line>>
        /\ Blocks = (IF last.line.json /\ last.line.msg.Command = "GET_CHAIN_RESPONSE"
                        THEN handleChainUpdate(last.pre, last.line.msg)
                     ELSE last.pre)
        /\ Peers = (IF last.line.json /\ last.line.msg.Command = "PEER_LIST"
                        THEN handlePeerList(last.prePeers, last.line.msg)
                    ELSE last.prePeers)

\* C28's case: one sweep connection abandoned at the dial, the other closed
\* after a GET_CHAIN_RESPONSE that replaced the chain
C28_Witness ==
    /\ \E p \in DOMAIN conns : conns[p].pc = "abandoned"
    /\ last.op = "Response" /\ last.line.json
    /\ last.line.msg.Command = "GET_CHAIN_RESPONSE"
    /\ last.pre = <<Genesis>> /\ Len(Blocks) = 2
    /\ conns[last.peer].written = <<GetChain, GetPeers>>

----------------------------------------------------------------------------
(* CreateBlock on its own *)

\* the pools CreateBlock is given: up to longest transactions
CreatePools(longest) == UNION {SeqsOfLen(PoolTransactions, n) : n \in 0..longest}

CreateInputs(longest) ==
    [op : {"CreateBlock"}, index : {1}, prevHash : {Genesis.Hash},
     pool : CreatePools(longest), difficulty : {0, difficulty},
     minerAddress : {minerAddress, <<"n">>}, reward : {0, reward}, now : Times]

InitCreate ==
    /\ Blocks = <<Genesis>>
    /\ files = <<>>
    /\ last = NoOp
    /\ hist = NoHist
    /\ NoRest
    /\ NoHcm
    /\ fnIn \in CreateInputs(MaxPool + 1)
    /\ txPool = fnIn.pool
    /\ fnOut = NoOp

\* one call of CreateBlock on the pool
DoCreateBlock ==
    /\ fnIn.op = "CreateBlock"
    /\ fnOut = NoOp
    /\ \E c \in {CreateBlock(fnIn.index, fnIn.prevHash, relType, receiverA, textData,
                             audioData, videoData, txPool, fnIn.difficulty,
                             fnIn.minerAddress, fnIn.reward, fnIn.now)} :
        /\ c.mined.returns
        /\ fnOut' = [op |-> "CreateBlock", block |-> c.mined.block]
        /\ txPool' = c.pool
    /\ UNCHANGED <<Blocks, files, last, hist, hcmVars, fnIn, restVars>>

SpecCreate == InitCreate /\ [][DoCreateBlock]_vars

\* C29: the block CreateBlock returns carries the hash recomputed from it, the
\* category main and no sub-blocks; its transactions are one COINBASE
\* transaction paying the reward to the miner followed by the transactions the
\* pool held, in their order; the pool is not emptied by the call: it holds
\* that same list
C29_CreateBlockResult ==
    fnOut.op = "CreateBlock" =>
        /\ fnOut.block.Hash = CalculateHash(fnOut.block)
        /\ fnOut.block.Category = main
        /\ fnOut.block.SubBlocks = <<>>
        /\ Len(fnOut.block.Transactions) = Len(fnIn.pool) + 1
        /\ fnOut.block.Transactions[1].Sender = COINBASE
        /\ fnOut.block.Transactions[1].Recipient = fnIn.minerAddress
        /\ fnOut.block.Transactions[1].Amount = fnIn.reward
        /\ Tail(fnOut.block.Transactions) = fnIn.pool
        /\ txPool = fnOut.block.Transactions

\* C29's case: a block created at difficulty 1 on a pool of two different
\* transactions
C29_Witness ==
    /\ fnOut.op = "CreateBlock"
    /\ fnIn.difficulty = 1
    /\ Len(fnIn.pool) = 2 /\ fnIn.pool[1] # fnIn.pool[2]
    /\ fnOut.block.Nonce > 0
    /\ Len(txPool) = 3

----------------------------------------------------------------------------
(* The beacon chain and its shards *)

\* shards of the largest beacon (main's has 3)
MaxShards == 3

\* sha256.Sum256(s)[0]: the first byte of the digest, its two leading hex digits
Sum256First(s) == Fold(s) \div Pow(16, HashLen - 2)

\* NewBeaconChain: numShards shards, shard i with ID i and an empty chain
NewBeaconChain(numShards) ==
    [i \in 1..numShards |-> [ID |-> i - 1, Blockchain |-> <<>>]]

\* AssignShard taking the digest of the recipient
AssignShard_ByRecipient(shards, tx) == Sum256First(tx.Recipient) % Len(shards)

\* AssignShard: the first byte of the sender's digest modulo the number of shards
AssignShard(shards, tx) == Sum256First(tx.Sender) % Len(shards)

\* BeaconChain.ProcessTransaction: the shard is assigned and printed; the
\* shards are left as they are
BeaconChain_ProcessTransaction(shards, tx) ==
    [Shards |-> shards, printed |-> AssignShard(shards, tx)]

BeaconSenders == {<<"A", "0">>, <<"A", "m">>, <<"A", "T">>, <<"m", "0">>}
BeaconTransactions ==
    {NewTransaction(s, r, a, 1, 1) :
        s \in BeaconSenders, r \in {<<"E", "m">>, <<"E", "T">>}, a \in {0, 42}}

InitBeacon ==
    /\ Blocks = <<>>
    /\ files = <<>>
    /\ txPool = <<>>
    /\ last = NoOp
    /\ hist = NoHist
    /\ NoHcm
    /\ NoFn
    /\ Peers = <<>> /\ sent = <<>> /\ conns = <<>>
    /\ mu = 0 /\ calls = <<>>
    /\ ledger = <<>>
    /\ \E numShards \in 1..MaxShards : Shards = NewBeaconChain(numShards)

BeaconFrame ==
    UNCHANGED <<Blocks, files, txPool, hist, hcmVars, fnIn, netVars, lockVars, ledger>>

\* a call of AssignShard; last keeps the call before it
DoAssignShard(tx) ==
    /\ fnOut' = [op |-> "AssignShard", tx |-> tx, ret |-> AssignShard(Shards, tx),
                 pre |-> Shards]
    /\ last' = fnOut
    /\ UNCHANGED Shards
    /\ BeaconFrame

\* a call of BeaconChain.ProcessTransaction
DoBeaconProcessTransaction(tx) ==
    /\ \E r \in {BeaconChain_ProcessTransaction(Shards, tx)} :
        /\ Shards' = r.Shards
        /\ fnOut' = [op |-> "ProcessTransaction", tx |-> tx, ret |-> r.printed,
                     pre |-> Shards]
    /\ last' = fnOut
    /\ BeaconFrame

NextBeacon ==
    \E tx \in BeaconTransactions :
        \/ DoAssignShard(tx)
        \/ DoBeaconProcessTransaction(tx)

SpecBeacon == InitBeacon /\ [][NextBeacon]_vars

\* C30: on a beacon of N >= 1 shards the shard assigned to a transaction is
\* one of 0..N-1, two transactions of one sender are assigned the same shard
\* whatever else they carry, and neither AssignShard nor ProcessTransaction
\* changes the shards: there are as many as before, each with its chain
C30_AssignShardBySender ==
    /\ Len(Shards) >= 1
    /\ fnOut.op \in {"AssignShard", "ProcessTransaction"} =>
        /\ fnOut.ret \in 0..(Len(Shards) - 1)
        /\ Shards = fnOut.pre
        /\ Shards = NewBeaconChain(Len(Shards))
        /\ (last.op \in {"AssignShard", "ProcessTransaction"}
                /\ last.tx.Sender = fnOut.tx.Sender) => last.ret = fnOut.ret

\* C30's case: on a beacon of three shards, two transactions of one sender
\* with different recipients and amounts get one shard, and another sender
\* gets another
C30_Witness ==
    /\ Len(Shards) = 3
    /\ fnOut.op = "ProcessTransaction" /\ last.op = "AssignShard"
    /\ last.tx.Sender = fnOut.tx.Sender
    /\ last.tx.Recipient # fnOut.tx.Recipient /\ last.tx.Amount # fnOut.tx.Amount
    /\ last.ret = fnOut.ret
    /\ \E tx \in BeaconTransactions : AssignShard(Shards, tx) # fnOut.ret
    /\ AssignShard(Shards, fnOut.tx) # AssignShard_ByRecipient(Shards, fnOut.tx)

----------------------------------------------------------------------------
(* The node's chain under mining, pruning and the peers' chains *)

\* blocks of the older copy of the long chain a peer still holds
StaleLen == 60

\* the chains peers send: the test's two-block chain with a difficulty of 5
\* injected into its second block, and an older copy of the long chain
RivalChains == {<<Genesis, IncomingBlock2>>, SubSeq(LongChain, 1, StaleLen)}

\* a transaction is waiting in the pool; hist.lost keeps the valid chains
\* fork choice has turned down
InitChain ==
    /\ Blocks \in {MinedChain(2), LongChain}
    /\ files = <<>>
    /\ txPool \in {<<tx>> : tx \in PoolTransactions}
    /\ last = NoOp
    /\ hist = [linked |-> TRUE, archived |-> TRUE, pruned |-> FALSE, adds |-> 0,
               prunes |-> 0, lost |-> {}]
    /\ NoHcm
    /\ NoFn
    /\ Peers = <<>> /\ sent = <<>> /\ conns = <<>>
    /\ mu = 0 /\ calls = <<>>
    /\ ledger = NodeLedger
    /\ Shards = <<>>

\* handleChainUpdate on a chain a peer sent; the peers' chains are valid, so
\* one that is not adopted has been turned down by fork choice
ReceiveChain(chain) ==
    /\ \E r \in {handleChainUpdate(Blocks, [Command |-> "CHAIN_UPDATE",
                                            parses |-> TRUE, chain |-> chain])} :
        /\ Blocks' = r
        /\ hist' = [hist EXCEPT !.lost = IF r # chain THEN @ \cup {chain} ELSE @]
    /\ last' = [op |-> "CHAIN_UPDATE", chain |-> chain, pre |-> Blocks]
    /\ UNCHANGED <<files, txPool, hcmVars, fnVars, restVars>>

NextChain ==
    \/ AutoMine(MaxTime, MaxTime)
    \/ \E io \in {"ok", "write_error"} : DoPruneAndArchive(retainBlocks, io, MaxTime)
    \/ \E chain \in RivalChains : ReceiveChain(chain)
    \/ DoHandleNewBlock([Command |-> "NEW_BLOCK", parses |-> TRUE,
                          block |-> NextBlock(Blocks, textData)], {})

SpecChain == InitChain /\ [][NextChain]_vars

\* the block's hash meets the target its difficulty field names
MeetsTarget(b) == LeadingZeros(b.Hash) >= b.Difficulty

\* C31: every block of the local chain has a hash with at least as many
\* leading zero hex characters as its difficulty field, after any sequence of
\* mined blocks added, chains received and new blocks received
C31_EveryBlockMeetsTarget ==
    \A i \in DOMAIN Blocks : MeetsTarget(Blocks[i])

\* C31's case: the node has adopted a received chain in place of its mined
\* one, and the chain's last block claims a difficulty its hash does not meet
C31_Witness ==
    /\ last.op = "CHAIN_UPDATE" /\ Blocks = last.chain /\ Blocks # last.pre
    /\ \A i \in DOMAIN last.pre : MeetsTarget(last.pre[i])
    /\ ~MeetsTarget(Blocks[Len(Blocks)])
    /\ CumulativeDifficulty(Blocks) > CumulativeDifficulty(last.pre)

\* C32: no operation lowers the cumulative difficulty of the local chain, and
\* a chain that fork choice turned down is never adopted later
C32_CumulativeDifficultyNeverDecreases ==
    last.op # "none" =>
        /\ CumulativeDifficulty(Blocks) >= CumulativeDifficulty(last.pre)
        /\ (last.op = "CHAIN_UPDATE" /\ Blocks # last.pre) => last.chain \notin hist.lost

\* C32's case: after a pruning the node adopts the older chain it had turned
\* down before
C32_Witness ==
    /\ last.op = "CHAIN_UPDATE" /\ Blocks = last.chain /\ Blocks # last.pre
    /\ last.chain \in hist.lost
    /\ hist.pruned
    /\ Len(Blocks) = StaleLen

\* C39: the block the auto-miner appends has its predecessor's index plus one
\* and its predecessor's hash as previous hash, whether or not the chain was
\* pruned before
C39_AutoMinedBlockFollowsTip ==
    (last.op = "AutoMine" /\ Len(Blocks) >= 2) =>
        /\ Blocks[Len(Blocks)].Index = Blocks[Len(Blocks) - 1].Index + 1
        /\ Blocks[Len(Blocks)].PrevHash = Blocks[Len(Blocks) - 1].Hash

\* C39's case: a block auto-mined on a pruned chain: it carries its
\* predecessor's hash and the pruned chain's length as index
C39_Witness ==
    /\ last.op = "AutoMine" /\ hist.pruned
    /\ Len(last.pre) = retainBlocks
    /\ Blocks[Len(Blocks)].PrevHash = Blocks[Len(Blocks) - 1].Hash
    /\ Blocks[Len(Blocks)].Index = retainBlocks
    /\ Blocks[Len(Blocks) - 1].Index = PrefixLen - 1

----------------------------------------------------------------------------
(* One transaction pool under CreateBlock, AddTransaction and Clear *)

InitPool ==
    /\ Blocks = <<Genesis>>
    /\ files = <<>>
    /\ txPool = <<>>
    /\ last = NoOp
    /\ hist = NoHist
    /\ NoRest
    /\ NoHcm
    /\ NoFn

\* CreateBlock on the pool as it is; the block is not added to a chain
CreateOnPool(now) ==
    /\ hist.adds < MaxAdds
    /\ \E c \in {CreateBlock(1, Genesis.Hash, relType, receiverA, textData, audioData,
                             videoData, txPool, difficulty, minerAddress, reward, now)} :
        /\ c.mined.returns
        /\ fnOut' = [op |-> "CreateBlock", block |-> c.mined.block]
        /\ txPool' = c.pool
    /\ last' = [op |-> "CreateBlock", pre |-> Blocks, prePool |-> txPool]
    /\ hist' = [hist EXCEPT !.adds = @ + 1]
    /\ UNCHANGED <<Blocks, files, hcmVars, fnIn, restVars>>

\* txPool.Clear()
Clear ==
    /\ txPool' = <<>>
    /\ last' = [op |-> "Clear", pre |-> Blocks, prePool |-> txPool]
    /\ UNCHANGED <<Blocks, files, hist, hcmVars, fnVars, restVars>>

NextPool ==
    \/ \E now \in Times : CreateOnPool(now)
    \/ \E tx \in PoolTransactions : DoAddTransaction(tx)
    \/ Clear

SpecPool == InitPool /\ [][NextPool]_vars

Coinbases(txs) == {i \in DOMAIN txs : txs[i].Sender = COINBASE}

\* C35: a block CreateBlock has produced holds exactly one COINBASE
\* transaction, and holds it first, whatever CreateBlock, AddTransaction and
\* Clear calls the pool has seen
C35_OneCoinbaseFirst ==
    fnOut.op = "CreateBlock" => Coinbases(fnOut.block.Transactions) = {1}

\* C35's case: the second of two CreateBlock calls with no Clear between
\* them: its block carries its own coinbase and the first call's
C35_Witness ==
    /\ last.op = "CreateBlock"
    /\ last.prePool # <<>> /\ last.prePool[1].Sender = COINBASE
    /\ fnOut.block.Transactions = txPool
    /\ Coinbases(fnOut.block.Transactions) = {1, 2}

----------------------------------------------------------------------------
(* Altered block content *)

\* what a block's transaction list, sub-block list or text is altered to
Alterations(field) ==
    IF field = "Transactions"
        THEN {<<>>, <<NewTransaction(<<"A">>, <<"E">>, 42, 1, 1)>>,
              <<NewTransaction(COINBASE, <<"E">>, reward, 0, 1)>>}
    ELSE IF field = "SubBlocks" THEN {<<>>, <<Genesis>>, <<LocalBlock2, Orphan>>}
    ELSE {<<"x">>, <<>>}

\* the chain ch with one block altered in one field and its hash kept
AlteredChainsOf(ch) ==
    UNION {{[op |-> "IsValidChain", original |-> ch, at |-> i, field |-> fld,
             chain |-> [ch EXCEPT ![i][fld] = v]] :
                v \in Alterations(fld) \ {ch[i][fld]}} :
            i \in DOMAIN ch, fld \in {"Transactions", "SubBlocks", "TextData"}}

\* the valid chains that are altered: mined ones and the test's
ValidChains == {MinedChain(2), MinedChain(3), <<Genesis, LocalBlock2>>,
                <<Genesis, IncomingBlock2>>}

\* the node holds the chain up to its last block; the altered chain is what a
\* peer sends
InitTamper ==
    /\ fnIn \in UNION {AlteredChainsOf(ch) : ch \in ValidChains}
    /\ Blocks = SubSeq(fnIn.original, 1, Len(fnIn.original) - 1)
    /\ files = <<>>
    /\ txPool = <<>>
    /\ last = NoOp
    /\ hist = NoHist
    /\ NoRest
    /\ NoHcm
    /\ fnOut = NoOp

NextTamper ==
    \/ DoIsValidChain
    \/ /\ fnIn.at = Len(fnIn.chain)
       /\ DoHandleNewBlock([Command |-> "NEW_BLOCK", parses |-> TRUE,
                            block |-> fnIn.chain[fnIn.at]], {})

SpecTamper == InitTamper /\ [][NextTamper]_vars

\* C36: a valid chain with the transaction list or the sub-block list of one
\* block altered, the block's other fields and stored hash kept, fails
\* IsValidChain, and a NEW_BLOCK carrying such a block is not appended
C36_AlteredContentRejected ==
    fnIn.field \in {"Transactions", "SubBlocks"} =>
        /\ fnOut.op = "IsValidChain" => ~fnOut.ret
        /\ last.op = "NEW_BLOCK" => Blocks = last.pre

\* C36's case: a valid chain whose last block has had its transactions
\* altered passes IsValidChain, and the altered block has been appended on a
\* NEW_BLOCK
C36_Witness ==
    /\ fnIn.field = "Transactions"
    /\ IsValidChain(fnIn.original) /\ fnIn.chain # fnIn.original
    /\ fnIn.chain[fnIn.at].Hash = fnIn.original[fnIn.at].Hash
    /\ fnOut.op = "IsValidChain" /\ fnOut.ret
    /\ last.op = "NEW_BLOCK" /\ Blocks = fnIn.chain

----------------------------------------------------------------------------
(* Finality over time *)

\* the total stakes FinalizeBlock is called with here: none, one, and main's
FinalStakes == {0, 1, 100}

\* ProposeBlock has been called twice, or not yet
InitFinal ==
    /\ Blocks = <<>>
    /\ files = <<>>
    /\ txPool = <<>>
    /\ last = NoOp
    /\ hist = NoHist
    /\ NoRest
    /\ CandidateBlocks \in {<<>>, ProposeBlock(ProposeBlock(<<>>, LocalBlock2),
                                              IncomingBlock2)}
    /\ hcmLast = [op |-> "none", approvals |-> [i \in DOMAIN CandidateBlocks |-> NoVotes],
                  ops |-> 0]
    /\ NoFn

NextFinal ==
    \/ \E b \in {LocalBlock2, IncomingBlock2} : DoProposeBlock(b)
    \/ \E candidateIndex \in 0..(Len(CandidateBlocks) - 1), validator \in Validators :
            DoCastVote(candidateIndex, validator, TRUE)
    \/ \E totalStake \in FinalStakes : DoFinalizeBlock(totalStake)

SpecFinal == InitFinal /\ [][NextFinal]_vars

\* the last call was FinalizeBlock(totalStake)
FinalizeCalled(totalStake) ==
    hcmLast.op = "FinalizeBlock" /\ hcmLast.totalStake = totalStake

\* and it returned block b
FinalizeReturned(totalStake, b) ==
    /\ FinalizeCalled(totalStake)
    /\ hcmLast.ret # 0
    /\ CandidateBlocks[hcmLast.ret].Block = b

\* C34: once FinalizeBlock has returned a block for a total stake, a later
\* FinalizeBlock call with that total stake returns the same block: whatever
\* call comes next, FinalizeBlock on the candidates it leaves still gives
\* that block
C34_FinalizedBlockIsFinal ==
    [][\A totalStake \in FinalStakes, b \in {LocalBlock2, IncomingBlock2} :
          FinalizeReturned(totalStake, b) =>
              \E r \in {FinalizeBlock(CandidateBlocks', totalStake)} :
                  r # 0 /\ CandidateBlocks'[r].Block = b]_vars

\* C34's case: FinalizeBlock(100) returns the first candidate's block after
\* the second candidate had reached the threshold before the first
C34_Witness ==
    /\ FinalizeReturned(100, LocalBlock2) /\ hcmLast.ret = 1
    /\ Len(CandidateBlocks) = 2
    /\ CandidateBlocks[2].Block = IncomingBlock2
    /\ CandidateBlocks[2].ValidVotes >= Threshold(100)
    /\ hcmLast.ops >= 4

\* C40: FinalizeBlock returns no candidate whose tally is 0, whatever total
\* stake of 0 or more it is called with
C40_NoVoteNoFinality ==
    (hcmLast.op = "FinalizeBlock" /\ hcmLast.ret # 0) =>
        CandidateBlocks[hcmLast.ret].ValidVotes > 0

\* C40's case: FinalizeBlock(1) has a threshold of 0 and returns a candidate
\* no validator has voted for
C40_Witness ==
    /\ FinalizeCalled(1) /\ Threshold(1) = 0
    /\ hcmLast.ret = 1
    /\ CandidateBlocks[1].ValidVotes = 0
    /\ hcmLast.approvals[1] = NoVotes

----------------------------------------------------------------------------
(* The ledger under amounts of any sign *)

\* the amounts a transaction may carry: none, negative ones, and positive ones
AnyAmounts == {0, -60, -1, 10, 200}

NextLedgerAny ==
    \/ \E sender \in Accounts, recipient \in Accounts, amount \in AnyAmounts :
        DoProcessTransaction([Sender |-> sender, Recipient |-> recipient, Amount |-> amount])
    \/ \E recipient \in Accounts, rwd \in {0} \cup Rewards :
        DoProcessCoinbaseTransaction(recipient, rwd)

SpecLedgerAny == InitLedger /\ [][NextLedgerAny]_vars

\* C38: from a ledger with no negative balance, no sequence of
\* ProcessTransaction calls with amounts of any sign and of coinbase credits
\* with rewards of 0 or more makes a balance negative
C38_NoNegativeBalance ==
    \A a \in DOMAIN ledger : ledger[a] >= 0

\* C38's case: a transaction with a negative amount is accepted, its sender
\* gains and its recipient is left below zero
C38_Witness ==
    /\ last.op = "ProcessTransaction" /\ last.err = "nil"
    /\ last.tx.Amount < 0 /\ last.tx.Sender # last.tx.Recipient
    /\ \A a \in DOMAIN last.pre : last.pre[a] >= 0
    /\ ledger[last.tx.Sender] > Balance(last.pre, last.tx.Sender)
    /\ ledger[last.tx.Recipient] < 0


\* ---------------------------------------------------------------------
\* Concurrent PEER_LIST handlers: handleConnection runs one goroutine per
\* connection and connectToPeers reads the responses of its sweep, so
\* handlePeerList can run in several goroutines at once; Node has no mutex
\* ---------------------------------------------------------------------

ReceivedLists == {<< <<"p", "2">> >>, << <<"p", "2">>, <<"p", "3">> >>, << <<"p", "3">>, <<"p", "2">> >>, << Address, <<"p", "3">> >>}

InitPeers ==
    /\ Blocks = <<Genesis>>
    /\ files = <<>>
    /\ txPool = <<>>
    /\ last = NoOp
    /\ hist = [linked |-> TRUE, archived |-> TRUE, pruned |-> FALSE, adds |-> 0,
               prunes |-> 0, added |-> {}]
    /\ NoHcm
    /\ NoFn
    /\ Peers \in {<<>>, << <<"p", "1">> >>}
    /\ sent = <<>>
    /\ conns = [c \in Conns |-> Idle]
    /\ mu = 0 /\ calls = <<>>
    /\ ledger = <<>>
    /\ Shards = <<>>

PeersFrame == UNCHANGED <<Blocks, files, txPool, last, hcmVars, fnVars, sent, lockVars, ledger, Shards>>

\* handleMessage routes a PEER_LIST message; json.Unmarshal gives receivedPeers
PeerListReceive(c, receivedPeers) ==
    /\ conns[c].pc = "idle"
    /\ hist.adds < MaxAdds
    /\ conns' = [conns EXCEPT ![c] = [pc |-> "check", rest |-> receivedPeers]]
    /\ hist' = [hist EXCEPT !.adds = @ + 1]
    /\ UNCHANGED Peers
    /\ PeersFrame

\* for _, peer := range receivedPeers: peer != n.Address && !contains(n.Peers, peer)
PeerListCheck(c) ==
    /\ conns[c].pc = "check"
    /\ conns' = [conns EXCEPT ![c] =
                    IF conns[c].rest = <<>> THEN Idle
                    ELSE IF Head(conns[c].rest) # Address /\ ~contains(Peers, Head(conns[c].rest))
                    THEN [pc |-> "load", rest |-> conns[c].rest]
                    ELSE [pc |-> "check", rest |-> Tail(conns[c].rest)]]
    /\ UNCHANGED <<Peers, hist>>
    /\ PeersFrame

\* append(n.Peers, peer) reads the slice
PeerListLoad(c) ==
    /\ conns[c].pc = "load"
    /\ conns' = [conns EXCEPT ![c] = [pc |-> "store", rest |-> conns[c].rest,
                                      slice |-> Peers]]
    /\ UNCHANGED <<Peers, hist>>
    /\ PeersFrame

\* n.Peers = the slice read, with peer after it
PeerListStore(c) ==
    /\ conns[c].pc = "store"
    /\ Peers' = Append(conns[c].slice, Head(conns[c].rest))
    /\ hist' = [hist EXCEPT !.added = @ \cup {Head(conns[c].rest)}]
    /\ conns' = [conns EXCEPT ![c] = [pc |-> "check", rest |-> Tail(conns[c].rest)]]
    /\ PeersFrame

NextPeers ==
    \E c \in Conns :
        \/ \E receivedPeers \in ReceivedLists : PeerListReceive(c, receivedPeers)
        \/ PeerListCheck(c)
        \/ PeerListLoad(c)
        \/ PeerListStore(c)

SpecPeers == InitPeers /\ [][NextPeers]_vars

\* C37: while PEER_LIST messages are handled concurrently the peer list never
\* holds the same address twice and every address a handler added is in it
C37_PeerListAtomic ==
    /\ NoDuplicates(Peers)
    /\ \A a \in hist.added : contains(Peers, a)

\* two handlers have finished and the address both of them added is there twice
C37_Witness ==
    /\ \A c \in Conns : conns[c].pc = "idle"
    /\ hist.adds = 2
    /\ \E i, j \in DOMAIN Peers : i # j /\ Peers[i] = Peers[j] /\ Peers[i] \in hist.added

\* two handlers have finished and an address one of them added is gone
C37_LostWitness ==
    /\ \A c \in Conns : conns[c].pc = "idle"
    /\ hist.adds = 2
    /\ \E a \in hist.added : ~contains(Peers, a)



\* ---------------------------------------------------------------------
\* PruneAndArchive beside the network handlers: pruneHandler runs it in the
\* HTTP server's goroutine while handleNewBlock appends and
\* handleChainUpdate replaces the chain in theirs; none of them takes a lock
\* ---------------------------------------------------------------------

archive_manual == <<"a", "m">>

\* n more sealed blocks on a chain, by halves.  (The test on the length has
\* the chain evaluated before it is extended.)
RECURSIVE Extend(_, _)
Extend(chain, n) ==
    IF Len(chain) < 0 \/ n = 0 THEN chain
    ELSE IF n = 1 THEN Append(chain, NextBlock(chain, videoData))
    ELSE LET half == Extend(chain, n \div 2)
         IN Extend(half, n - (n \div 2))

\* a valid chain of StaleLen blocks that outweighs the mined chain and shares
\* no block with it
HeavyChain == Extend(<<HeavyGenesis>>, StaleLen - 1)

InitPruneRace ==
    /\ Blocks = LongChain
    /\ files = <<>>
    /\ txPool = <<>>
    /\ last = NoOp
    /\ hist = [linked |-> TRUE, archived |-> TRUE, pruned |-> FALSE, adds |-> 0,
               prunes |-> 0, lost |-> {}]
    /\ NoHcm
    /\ NoFn
    /\ Peers = <<>> /\ sent = <<>>
    /\ conns = Idle
    /\ mu = 0 /\ calls = <<>>
    /\ ledger = <<>>
    /\ Shards = <<>>

PruneFrame == UNCHANGED <<txPool, hcmVars, fnVars, Peers, sent, lockVars, ledger, Shards>>

\* totalBlocks := len(bc.Blocks); archiveBlocks := bc.Blocks[:totalBlocks-retainCount]
PruneRead(retainCount, archiveFilename) ==
    /\ conns.pc = "idle"
    /\ hist.prunes < MaxPrunes
    /\ conns' = IF Len(Blocks) <= retainCount THEN Idle
                ELSE [pc |-> "write", retainCount |-> retainCount,
                      archiveFilename |-> archiveFilename,
                      totalBlocks |-> Len(Blocks),
                      archiveBlocks |-> SubSeq(Blocks, 1, Len(Blocks) - retainCount)]
    /\ hist' = [hist EXCEPT !.prunes = @ + 1]
    /\ UNCHANGED <<Blocks, files, last>>
    /\ PruneFrame

\* json.MarshalIndent(archiveBlocks) and ioutil.WriteFile
PruneWriteFile(io, now) ==
    /\ conns.pc = "write"
    /\ IF io = "ok"
       THEN /\ files' = [f \in DOMAIN files \cup {ArchiveFile(conns.archiveFilename, now)} |->
                            IF f = ArchiveFile(conns.archiveFilename, now)
                            THEN conns.archiveBlocks ELSE files[f]]
            /\ conns' = [conns EXCEPT !.pc = "cut"]
       ELSE /\ files' = files
            /\ conns' = Idle
    /\ UNCHANGED <<Blocks, last, hist>>
    /\ PruneFrame

\* bc.Blocks = bc.Blocks[totalBlocks-retainCount:], on the chain as it is
\* now; the slice expression panics when the chain has fewer blocks
PruneCut ==
    /\ conns.pc = "cut"
    /\ IF conns.totalBlocks - conns.retainCount > Len(Blocks)
       THEN /\ Blocks' = Blocks
            /\ conns' = [pc |-> "panic"]
       ELSE /\ Blocks' = SubSeq(Blocks, conns.totalBlocks - conns.retainCount + 1, Len(Blocks))
            /\ conns' = Idle
    /\ last' = [op |-> "PruneCut", pre |-> Blocks, retainCount |-> conns.retainCount,
                archiveBlocks |-> conns.archiveBlocks,
                panics |-> conns.totalBlocks - conns.retainCount > Len(Blocks)]
    /\ UNCHANGED <<files, hist>>
    /\ PruneFrame

NextPruneRace ==
    \/ PruneRead(retainBlocks, archive_manual)
    \/ \E io \in {"ok", "write_error"} : PruneWriteFile(io, MaxTime)
    \/ PruneCut
    \/ \E chain \in {HeavyChain, <<HeavyGenesis>>} : ReceiveChain(chain)
    \/ DoHandleNewBlock([Command |-> "NEW_BLOCK", parses |-> TRUE, block |-> NextBlock(Blocks, textData)], {})

SpecPruneRace == InitPruneRace /\ [][NextPruneRace]_vars

Elements(q) == {q[i] : i \in DOMAIN q}

\* C33: when a prune running beside appends and chain replacements cuts the
\* chain, every block it removes is among the blocks it archived, and exactly
\* retainCount blocks remain
C33_PruneRemovesOnlyArchived ==
    (last.op = "PruneCut" /\ ~last.panics) =>
        /\ Elements(last.pre) \ Elements(Blocks) \subseteq Elements(last.archiveBlocks)
        /\ Len(Blocks) = last.retainCount

\* a prune has cut a chain adopted after it wrote its archive, and a block it
\* removed is in no archive file
C33_Witness ==
    /\ last.op = "PruneCut" /\ ~last.panics
    /\ last.pre = HeavyChain
    /\ \E b \in Elements(last.pre) \ Elements(Blocks) :
        \A f \in DOMAIN files : b \notin Elements(files[f])

\* a prune has cut a chain that grew by a block after it was measured, and one
\* block more than retainCount remains
C33_AppendWitness ==
    /\ last.op = "PruneCut" /\ ~last.panics
    /\ Len(last.pre) = Len(last.archiveBlocks) + last.retainCount + 1
    /\ Len(Blocks) = last.retainCount + 1


====
